---- MODULE Spec2Model ----
(***************************************************************************)
(* Model of the anomaly analysis pipeline of src/src/agent/                *)
(* anomaly_analyzer.py (class AnomalyAnalyzerAgent).                       *)
(*                                                                         *)
(* Two specifications are defined over the same variables:                 *)
(*   SpecCorrelate  runs _analyze_migration_impact alone, one loop         *)
(*                  iteration per step, twice on the same inputs;          *)
(*   Spec           runs analyze_anomaly end to end, one pipeline stage    *)
(*                  per step, with the reasoning capability's answers      *)
(*                  drawn from a catalogue of behaviours.                  *)
(*                                                                         *)
(* Times are whole seconds; time_diff (hours, a float in the code) is kept *)
(* as the number of seconds and compared against h * SecondsPerHour.       *)
(* Text is a sequence of one-character strings where the code inspects     *)
(* characters (migration types), and a sequence of tokens where the code   *)
(* inspects code fences (capability responses).                            *)
(***************************************************************************)
EXTENDS Integers, Sequences, FiniteSets, TLC

VARIABLES
    \* ---- _analyze_migration_impact run on its own (SpecCorrelate) ----
    c_pc,            \* "call" | "loop" | "done" | "raised"
    c_detected_at,   \* anomaly.detected_at of the call
    c_migrations,    \* the migrations argument
    c_idx,           \* position of the for loop
    c_related,       \* local related_migrations
    c_factors,       \* local impact_factors
    c_result,        \* the returned dictionary of the latest call
    c_first,         \* the returned dictionary of the first call
    c_calls,         \* number of completed calls
    c_args0,         \* the arguments as they were before the first call
    \* ---- analyze_anomaly (Spec) ----
    ai_available,    \* self.ai_available, set by __init__
    migrations_table, \* rows of the migrations table of the store
    pc,              \* stage of the current analyze_anomaly call
    raised_at,       \* the stage that raised, "" while none did
    anomaly,         \* the argument of the call
    ctx,             \* the context dictionary
    root,            \* the RootCause of the call
    recommendations, \* the list of Recommendation of the call
    analysis,        \* the AnomalyAnalysis returned
    rc_arm,          \* the arm that produced root_cause: "ai" | "rule" | ""
    rec_arm,         \* the arm that produced recommendations
    rc_answer,       \* how the capability behaved on the root-cause call
    rec_answer,      \* how the capability behaved on the recommendation call
    writes,          \* insert_rows_json calls made by this analyze_anomaly call
    row,             \* the row this call stored, NoRow if none
    clock,           \* time.time(), in milliseconds since the agent was last idle
    analysis_start,  \* start_time of analyze_anomaly
    duration_ms,     \* the local duration_ms, NoDuration while unassigned
    rc_calls,        \* generate_content calls made for the root cause
    rec_calls,       \* generate_content calls made for the recommendations
    \* ---- the baseline engine (SpecBaseline) ----
    b_pc,            \* "ready" | "done"
    b_config_use_ai, \* config baseline.use_ai_optimization
    b_config_threshold, \* config baseline.ai_confidence_threshold, in hundredths
    b_use_ai,        \* self.use_ai of the optimizer at hand, as __init__ read it
    b_ai_available,  \* AIBaselineOptimizer.ai_available
    b_threshold,     \* self.ai_confidence_threshold of the optimizer at hand
    b_method,        \* config baseline.calculation_method
    b_store,         \* what the store answers about the metric column
    b_op,            \* the operation that ran
    b_request,       \* the calculation_method argument of calculate_baseline
    b_data,          \* the series handed to analyze_metric
    b_response,      \* how the capability behaved on the optimizer's call
    b_recommendation, \* the dictionary analyze_metric returned
    b_outcome,       \* what the calculator operation returned or raised
    \* ---- the Baseline table and calculate_and_save_all_baselines (SpecBatch) ----
    s_pc,            \* "off" | "ready" | "batch" | "batch_done"
    s_metrics,       \* config baseline.metrics
    s_stores,        \* what the store answers about each metric's column
    s_table,         \* the rows of the Baseline table, in insertion order
    s_passed,        \* the baselines passed to save_baseline so far
    s_saved,         \* the baselines whose save_baseline call succeeded
    s_held,          \* the baseline the last direct calculate_baseline returned
    s_ops,           \* direct calls made so far
    s_idx,           \* position of `for metric in metrics`
    s_baselines,     \* the local list baselines
    s_log,           \* what happened to each metric of the loop
    \* ---- two analyze_anomaly calls in two threads (SpecConcurrent) ----
    t_calls,         \* the locals of each thread's call
    t_rows,          \* the rows the calls stored in the analysis table
    t_constructed    \* self.ai_available as __init__ assigned it

c_vars == <<c_pc, c_detected_at, c_migrations, c_idx, c_related, c_factors,
            c_result, c_first, c_calls, c_args0>>

p_vars == <<ai_available, migrations_table, pc, raised_at, anomaly, ctx, root,
            recommendations, analysis, rc_arm, rec_arm, rc_answer, rec_answer,
            writes, row, clock, analysis_start, duration_ms, rc_calls, rec_calls>>

b_vars == <<b_pc, b_config_use_ai, b_config_threshold, b_use_ai, b_ai_available,
            b_threshold, b_method, b_store, b_op, b_request, b_data, b_response,
            b_recommendation, b_outcome>>
s_vars == <<s_pc, s_metrics, s_stores, s_table, s_passed, s_saved, s_held, s_ops, s_idx,
            s_baselines, s_log>>
t_vars == <<t_calls, t_rows, t_constructed>>
vars == <<c_vars, p_vars, b_vars, s_vars, t_vars>>

----------------------------------------------------------------------------
\* Bounds of the model

\* longest migrations list handed to _analyze_migration_impact
MaxMigrations == 2

----------------------------------------------------------------------------
\* Program constants

\* total_seconds() / 3600
SecondsPerHour == 3600
\* time_diff > 24
WindowHours == 24
\* m['time_before_anomaly_hours'] < 6
LikelyCauseHours == 6
\* impact_factors[:3]
SummaryFactors == 3

----------------------------------------------------------------------------
\* Text helpers: str.lower() and the substring test `needle in haystack`

Upper == <<"A","B","C","D","E","F","G","H","I","J","K","L","M",
           "N","O","P","Q","R","S","T","U","V","W","X","Y","Z">>
LowerLetters == <<"a","b","c","d","e","f","g","h","i","j","k","l","m",
                  "n","o","p","q","r","s","t","u","v","w","x","y","z">>

lower_char(c) ==
    IF \E i \in 1..Len(Upper) : Upper[i] = c
    THEN LowerLetters[CHOOSE i \in 1..Len(Upper) : Upper[i] = c]
    ELSE c

lower(s) == [i \in 1..Len(s) |-> lower_char(s[i])]

contains(hay, needle) ==
    \E i \in 1..(Len(hay) - Len(needle) + 1) :
        SubSeq(hay, i, i + Len(needle) - 1) = needle

FUNCTIONALITY == <<"f","u","n","c","t","i","o","n","a","l","i","t","y">>
FEATURE == <<"f","e","a","t","u","r","e">>

----------------------------------------------------------------------------
\* Values of a migration dictionary.  A field is a record with a kind k:
\* "absent" (no such key), "null" (None) or a value.

Absent == [k |-> "absent", n |-> 0]
Null == [k |-> "null", n |-> 0]
Num(n) == [k |-> "int", n |-> n]

NoType == [k |-> "absent", chars |-> <<>>]
Type(chars) == [k |-> "str", chars |-> chars]

\* resource_requirements: absent, None, or a map with optional cpu_increase,
\* memory_increase and possibly other keys
NoReqs == [k |-> "absent", cpu |-> Absent, mem |-> Absent, other |-> FALSE]
NullReqs == [k |-> "null", cpu |-> Absent, mem |-> Absent, other |-> FALSE]
Reqs(cpu, mem, other) == [k |-> "map", cpu |-> cpu, mem |-> mem, other |-> other]

Migration(id, type, ts, ucc, reqs) ==
    [migration_id |-> id, type |-> type, timestamp |-> ts,
     user_count_change |-> ucc, resource_requirements |-> reqs]

\* Python truthiness of a value
truthy(v) == v.k = "int" /\ v.n # 0
\* bool(resource_reqs): a non-empty dict
reqs_truthy(r) == r.k = "map" /\ (r.cpu.k # "absent" \/ r.mem.k # "absent" \/ r.other)

----------------------------------------------------------------------------
\* _analyze_migration_impact

\* time_diff = (anomaly.detected_at - migration['timestamp']).total_seconds() / 3600,
\* kept in seconds
time_diff(detected_at, migration) == detected_at - migration.timestamp

\* if time_diff < 0 or time_diff > 24: continue
outside_window_exclusive(td) == td < 0 \/ td >= WindowHours * SecondsPerHour
outside_window_no_lower_bound(td) == td > WindowHours * SecondsPerHour
outside_window(td) == td < 0 \/ td > WindowHours * SecondsPerHour

\* ---- binary floating point ----
\* Natural numbers of any size, as sequences of digits to the base 2^15, the
\* lowest digit first and no leading zero; <<>> is zero.  An operator binds
\* what it uses more than once as an element of a one-element set, so that
\* the value is computed once.
RECURSIVE BigOfNat(_)
BigOfNat(n) == IF n = 0 THEN <<>> ELSE <<n % 32768>> \o BigOfNat(n \div 32768)

\* the digits of the number whose digit i is vals[i] (below 2^30), from
\* position i on, with the carry of the positions before
RECURSIVE BigCarry(_, _, _)
BigCarry(vals, i, carry) ==
    IF i > Len(vals) THEN BigOfNat(carry)
    ELSE <<(vals[i] + carry) % 32768>>
         \o BigCarry(vals, i + 1, (vals[i] + carry) \div 32768)

BigAdd(a, b) ==
    CHOOSE sum \in
        {BigCarry([i \in 1..(IF Len(x) > Len(y) THEN Len(x) ELSE Len(y)) |->
                      (IF i <= Len(x) THEN x[i] ELSE 0)
                      + (IF i <= Len(y) THEN y[i] ELSE 0)], 1, 0) :
            x \in {a}, y \in {b}} : TRUE

\* a * m for 0 <= m < 2^16
BigMulSmall(a, m) ==
    CHOOSE product \in
        {IF k = 0 THEN <<>> ELSE BigCarry([i \in 1..Len(x) |-> x[i] * k], 1, 0) :
            x \in {a}, k \in {m}} : TRUE

RECURSIVE BigMulFrom(_, _, _)
BigMulFrom(x, y, j) ==
    IF j > Len(y) THEN <<>>
    ELSE CHOOSE product \in
            {BigAdd(BigMulSmall(x, y[j]), IF rest = <<>> THEN <<>> ELSE <<0>> \o rest) :
                rest \in {BigMulFrom(x, y, j + 1)}} : TRUE
BigMul(a, b) == CHOOSE product \in {BigMulFrom(x, y, 1) : x \in {a}, y \in {b}} : TRUE

\* a * 2^n
BigShl(a, n) ==
    CHOOSE shifted \in
        {IF x = <<>> THEN <<>>
         ELSE [i \in 1..(k \div 15) |-> 0] \o BigMulSmall(x, 2^(k % 15)) :
            x \in {a}, k \in {n}} : TRUE

\* -1, 0 or 1 as a is less than, equal to or greater than b
BigCmp(a, b) ==
    CHOOSE c \in
        {IF Len(x) < Len(y) THEN -1
         ELSE IF Len(x) > Len(y) THEN 1
         ELSE IF x = y THEN 0
         ELSE CHOOSE c \in
                {IF x[k] < y[k] THEN -1 ELSE 1 :
                    k \in {i \in 1..Len(x) :
                             /\ x[i] # y[i]
                             /\ \A j \in (i + 1)..Len(x) : x[j] = y[j]}} : TRUE :
            x \in {a}, y \in {b}} : TRUE

\* quotient and remainder of the digits 1..i of x, put before the remainder
\* rem of the digits above them, by d; q is the quotient of the digits above
RECURSIVE BigDivFrom(_, _, _, _, _)
BigDivFrom(x, d, i, rem, q) ==
    IF i = 0 THEN [q |-> q, r |-> rem]
    ELSE CHOOSE result \in
            UNION {{BigDivFrom(x, d, i - 1, v % d, q2) :
                       q2 \in {IF q = <<>> /\ v \div d = 0 THEN <<>>
                               ELSE <<v \div d>> \o q}} :
                   v \in {rem * 32768 + x[i]}} : TRUE

\* quotient and remainder of a by d, for 0 < d < 2^16
BigDivSmall(a, d) ==
    CHOOSE result \in {BigDivFrom(x, d, Len(x), 0, <<>>) : x \in {a}} : TRUE

BigOdd(a) == a # <<>> /\ Head(a) % 2 = 1

\* a - 1 for a positive a
RECURSIVE BigPred(_)
BigPred(a) ==
    IF Head(a) > 0
    THEN IF Len(a) = 1 /\ Head(a) = 1 THEN <<>> ELSE <<Head(a) - 1>> \o Tail(a)
    ELSE <<32767>> \o BigPred(Tail(a))

\* a * 2^ea compared with b * 2^eb
BigCmpScaled(a, ea, b, eb) ==
    IF ea >= eb THEN BigCmp(BigShl(a, ea - eb), b)
    ELSE BigCmp(a, BigShl(b, eb - ea))

\* the e with 2^e <= num / den < 2^(e + 1), for 0 < num, 0 < den
RECURSIVE FloorLog2Up(_, _, _)
FloorLog2Up(num, den, k) ==
    IF den * 2^(k + 1) > num THEN k ELSE FloorLog2Up(num, den, k + 1)
RECURSIVE FloorLog2Down(_, _, _)
FloorLog2Down(num, den, j) ==
    IF num * 2^j >= den THEN 0 - j ELSE FloorLog2Down(num, den, j + 1)
FloorLog2(num, den) ==
    IF num >= den THEN FloorLog2Up(num, den, 0) ELSE FloorLog2Down(num, den, 1)

\* A positive double is [m, e] with 2^52 <= m < 2^53; its value is m * 2^e.
\* q and r are the quotient and the remainder of num * 2^shift by den
DoubleRound(q, r, den, shift) ==
    CHOOSE x \in
        {IF BigCmp(m, BigShl(<<1>>, 53)) = 0
         THEN [m |-> BigShl(<<1>>, 52), e |-> 1 - shift]
         ELSE [m |-> m, e |-> 0 - shift] :
            m \in {IF 2 * r > den \/ (2 * r = den /\ BigOdd(q))
                   THEN BigAdd(q, <<1>>) ELSE q}} : TRUE

\* the double nearest to num / den (round half to even), for 0 < num < 2^22
\* and 0 < den < 2^16: what a decimal literal and a float division give
Double(num, den) ==
    CHOOSE x \in
        {DoubleRound(d.q, d.r, den, 52 - FloorLog2(num, den)) :
            d \in {BigDivSmall(BigShl(BigOfNat(num), 52 - FloorLog2(num, den)),
                               den)}} : TRUE

\* x < fl(y) for a positive double x and the exact product y = p.m * q.m *
\* 2^(p.e + q.e): fl(y) is above x when y is above the midpoint of x and its
\* successor, or on it when the successor is the even one
ProductAbove(x, p, q) ==
    CHOOSE above \in
        {c = 1 \/ (c = 0 /\ BigOdd(x.m)) :
            c \in {BigCmpScaled(BigMul(p.m, q.m), p.e + q.e + 1,
                                BigAdd(BigMulSmall(x.m, 2), <<1>>), x.e)}} : TRUE
DoubleBelowProduct(x, p, q) ==
    CHOOSE below \in {ProductAbove(x1, p1, q1) : x1 \in {x}, p1 \in {p}, q1 \in {q}} :
        TRUE

\* fl(a / b) < c for positive doubles: the quotient is below c when a / b is
\* below the midpoint of c and its predecessor, or on it when the predecessor
\* is the even one (c is no power of two)
QuotientBelow(a, b, c) ==
    CHOOSE below \in
        {cmp = -1 \/ (cmp = 0 /\ BigOdd(c.m)) :
            cmp \in {BigCmpScaled(BigMulSmall(a.m, 2), a.e,
                         BigMul(b.m, BigAdd(BigMulSmall(BigPred(c.m), 2), <<1>>)),
                         b.e + c.e)}} : TRUE
DoubleQuotientBelow(a, b, c) ==
    CHOOSE below \in {QuotientBelow(a1, b1, c1) : a1 \in {a}, b1 \in {b}, c1 \in {c}} :
        TRUE

\* the tenths printed for a time_diff of td seconds that lies, as a fraction,
\* exactly between q and q + 1 tenths of an hour: the double td / 3600 is
\* below, above or on (2q + 1) / 20, and on it the even tenth is printed
tenths_of_tie(td, q) ==
    CHOOSE tenths \in
        {IF c = -1 THEN q
         ELSE IF c = 1 THEN q + 1
         ELSE IF q % 2 = 0 THEN q ELSE q + 1 :
            c \in {BigCmpScaled(BigMulSmall(x.m, 20), x.e, BigOfNat(2 * q + 1), 0) :
                      x \in {Double(td, SecondsPerHour)}}} : TRUE

\* f"{time_diff:.1f}" for time_diff = td / 3600 hours, 0 <= td: the tenths of
\* the decimal nearest to the double (off a tie the double and the fraction
\* have the same nearest tenth)
fmt_tenths(td) ==
    IF 2 * ((td * 10) % SecondsPerHour) < SecondsPerHour
    THEN (td * 10) \div SecondsPerHour
    ELSE IF 2 * ((td * 10) % SecondsPerHour) > SecondsPerHour
    THEN (td * 10) \div SecondsPerHour + 1
    ELSE tenths_of_tie(td, (td * 10) \div SecondsPerHour)

Note(kind, n) == [kind |-> kind, n |-> n]
Factor(kind, n, td) == [kind |-> kind, n |-> n, hours_tenths |-> fmt_tenths(td)]

\* migration.get('user_count_change', 0) > 0 ; None > 0 raises TypeError
users_raises(m) == m.user_count_change.k = "null"
users_added(m) == m.user_count_change.k = "int" /\ m.user_count_change.n > 0

\* 'functionality' in type.lower() or 'feature' in type.lower() ;
\* None.lower() raises AttributeError
type_raises(m) == m.type.k = "null"
is_functionality(m) ==
    /\ m.type.k = "str"
    /\ \/ contains(lower(m.type.chars), FUNCTIONALITY)
       \/ contains(lower(m.type.chars), FEATURE)

\* the notes of one in-window migration, in the order the code appends them
potential_impact_case_sensitive(m) ==
    LET r == m.resource_requirements
    IN  (IF users_added(m) THEN <<Note("users", m.user_count_change.n)>> ELSE <<>>)
        \o (IF m.type.k = "str" /\ (contains(m.type.chars, FUNCTIONALITY)
                                    \/ contains(m.type.chars, FEATURE))
            THEN <<Note("functionality", 0)>> ELSE <<>>)
        \o (IF reqs_truthy(r) /\ truthy(r.cpu) THEN <<Note("cpu", r.cpu.n)>> ELSE <<>>)
        \o (IF reqs_truthy(r) /\ truthy(r.mem) THEN <<Note("memory", r.mem.n)>> ELSE <<>>)
potential_impact(m) ==
    LET r == m.resource_requirements
    IN  (IF users_added(m) THEN <<Note("users", m.user_count_change.n)>> ELSE <<>>)
        \o (IF is_functionality(m) THEN <<Note("functionality", 0)>> ELSE <<>>)
        \o (IF reqs_truthy(r) /\ truthy(r.cpu) THEN <<Note("cpu", r.cpu.n)>> ELSE <<>>)
        \o (IF reqs_truthy(r) /\ truthy(r.mem) THEN <<Note("memory", r.mem.n)>> ELSE <<>>)

\* the impact_factors entries one in-window migration appends
step_factors(m, td) ==
    (IF users_added(m) THEN <<Factor("users", m.user_count_change.n, td)>> ELSE <<>>)
    \o (IF is_functionality(m) THEN <<Factor("functionality", 0, td)>> ELSE <<>>)
    \o (IF reqs_truthy(m.resource_requirements) THEN <<Factor("resources", 0, td)>> ELSE <<>>)

\* related_migrations = [] and impact_factors = [] at the start of every call
stale_related_migrations == c_related
new_related_migrations == <<>>
new_impact_factors == <<>>

\* one iteration of `for migration in migrations`
migration_step(acc, m, detected_at) ==
    LET td == time_diff(detected_at, m)
        notes == potential_impact(m)
        impact == [migration |-> m, time_before_anomaly_hours |-> td,
                   potential_impact |-> notes]
    IN  IF outside_window(td) THEN acc
        ELSE IF users_raises(m) \/ type_raises(m)
        THEN [acc EXCEPT !.raised = TRUE]
        ELSE [raised |-> FALSE,
              related |-> IF notes # <<>> THEN Append(acc.related, impact)
                          ELSE acc.related,
              factors |-> acc.factors \o step_factors(m, td)]

\* likely_cause = len(related_migrations) > 0 and any(... < 6 ...)
likely_cause_lax(related) ==
    /\ Len(related) > 0
    /\ \E i \in 1..Len(related) :
          related[i].time_before_anomaly_hours <= LikelyCauseHours * SecondsPerHour
likely_cause_of(related) ==
    /\ Len(related) > 0
    /\ \E i \in 1..Len(related) :
          related[i].time_before_anomaly_hours < LikelyCauseHours * SecondsPerHour

Head3(s) == SubSeq(s, 1, IF Len(s) < SummaryFactors THEN Len(s) ELSE SummaryFactors)

Summary(case, count, factors) == [case |-> case, count |-> count, factors |-> factors]

\* the three branches that build impact_summary after the loop
impact_summary_of(related, factors) ==
    IF related = <<>> THEN Summary("no_correlation", 0, <<>>)
    ELSE IF likely_cause_of(related)
    THEN Summary("likely_contributed", Len(related), Head3(factors))
    ELSE Summary("not_primary_cause", Len(related), <<>>)

\* `if not migrations: return {...}` (a dictionary without 'impact_factors')
early_result ==
    [likely_cause |-> FALSE, related_migrations |-> <<>>,
     impact_summary |-> Summary("no_recent_migrations", 0, <<>>),
     has_impact_factors |-> FALSE, impact_factors |-> <<>>]

\* the dictionary returned after the loop
loop_result(related, factors) ==
    [likely_cause |-> likely_cause_of(related), related_migrations |-> related,
     impact_summary |-> impact_summary_of(related, factors),
     has_impact_factors |-> TRUE, impact_factors |-> factors]

RECURSIVE fold_migrations(_, _, _)
fold_migrations(acc, migs, detected_at) ==
    IF migs = <<>> \/ acc.raised THEN acc
    ELSE fold_migrations(migration_step(acc, Head(migs), detected_at), Tail(migs), detected_at)

\* the whole call: [raised, result]
analyze_migration_impact(detected_at, migs) ==
    IF migs = <<>> THEN [raised |-> FALSE, result |-> early_result]
    ELSE LET acc == fold_migrations([raised |-> FALSE, related |-> new_related_migrations,
                                     factors |-> new_impact_factors], migs, detected_at)
         IN  [raised |-> acc.raised,
              result |-> IF acc.raised THEN early_result
                         ELSE loop_result(acc.related, acc.factors)]

\* the value of a result variable before any call returned
NoResult ==
    [likely_cause |-> FALSE, related_migrations |-> <<>>,
     impact_summary |-> Summary("none", 0, <<>>),
     has_impact_factors |-> FALSE, impact_factors |-> <<>>]

----------------------------------------------------------------------------
\* Values decoded from the reasoning capability's JSON.  t is the JSON type
\* ("missing": the key is not in the object); n the number (confidence in
\* hundredths); items the parts of a string, the elements of a list or the
\* keys of a map.

JMissing == [t |-> "missing", n |-> 0, items |-> <<>>]
JNull == [t |-> "null", n |-> 0, items |-> <<>>]
JNum(n) == [t |-> "num", n |-> n, items |-> <<>>]
JStr(parts) == [t |-> "str", n |-> 0, items |-> parts]
JList(items) == [t |-> "list", n |-> 0, items |-> items]
JMap(keys) == [t |-> "map", n |-> 0, items |-> keys]

\* bool(v)
py_truthy(v) ==
    CASE v.t = "num" -> v.n # 0
      [] v.t \in {"str", "list", "map"} -> v.items # <<>>
      [] OTHER -> FALSE
\* v[:3] is defined
sliceable(v) == v.t \in {"str", "list"}
\* ', '.join(v) is defined (the elements of the model's lists are strings)
joinable(v) == v.t \in {"str", "list", "map"}

\* correlation_data: a JSON value; has_ma tells whether 'migration_analysis' is
\* in it (a key of the map, an element of the list, a substring of the string),
\* other whether the map holds other keys, ma the value under the key.
NoMA == [t |-> "none", val |-> NoResult]
CD(t, has_ma, other, ma) == [t |-> t, has_ma |-> has_ma, other |-> other, ma |-> ma]
EmptyCD == CD("map", FALSE, FALSE, NoMA)
\* no 'correlation_data' key in the object
JMissing_CD == CD("missing", FALSE, FALSE, NoMA)
MAMap(val) == [t |-> "map", val |-> val]

----------------------------------------------------------------------------
\* Text of a capability response: a sequence of tokens.
\*   "FENCE" is ```, "JSONTAG" the letters json, "WS" white space, "PROSE" text
\*   that is not JSON, "PAYLOAD" the text of one JSON value.

\* str.strip()
RECURSIVE lstrip(_)
lstrip(ts) == IF ts # <<>> /\ Head(ts) = "WS" THEN lstrip(Tail(ts)) ELSE ts
RECURSIVE rstrip(_)
rstrip(ts) ==
    IF ts # <<>> /\ ts[Len(ts)] = "WS" THEN rstrip(SubSeq(ts, 1, Len(ts) - 1)) ELSE ts
strip(ts) == rstrip(lstrip(ts))

\* text.split('```')[0]
RECURSIVE until_fence(_)
until_fence(ts) ==
    IF ts = <<>> \/ Head(ts) = "FENCE" THEN <<>>
    ELSE <<Head(ts)>> \o until_fence(Tail(ts))

starts_with(ts, prefix) == Len(ts) >= Len(prefix) /\ SubSeq(ts, 1, Len(prefix)) = prefix

\* the code-fence handling before json.loads
strip_fences(text) ==
    IF starts_with(text, <<"FENCE", "JSONTAG">>)
    THEN strip(until_fence(SubSeq(text, 3, Len(text))))
    ELSE IF starts_with(text, <<"FENCE">>)
    THEN strip(until_fence(SubSeq(text, 2, Len(text))))
    ELSE text

\* json.loads succeeds iff the text is one JSON value
json_loads_ok(text) == strip(text) = <<"PAYLOAD">>

\* response.text.strip(), the fences, json.loads: does the response parse
parses(response) == json_loads_ok(strip_fences(strip(response.tokens)))

----------------------------------------------------------------------------
\* _gather_context

\* config.insight_model
InsightModel == "gemini-1.5-pro"

\* LIMIT 50 of the migrations query
QueryLimit == 50

\* rows ordered by migration_timestamp DESC (the rows of the model's tables
\* have distinct timestamps)
RECURSIVE sorted_desc(_)
sorted_desc(rows) ==
    IF rows = {} THEN <<>>
    ELSE LET top == CHOOSE r \in rows : \A o \in rows : o.timestamp <= r.timestamp
         IN  <<top>> \o sorted_desc(rows \ {top})

\* the dictionary built from one row: a column the row does not have becomes 0
\* (user_count_change) or {} (resource_requirements); a NULL stays None
row_to_migration(r) ==
    [r EXCEPT !.user_count_change = IF @.k = "absent" THEN Num(0) ELSE @,
              !.resource_requirements =
                  IF @.k = "absent" THEN Reqs(Absent, Absent, FALSE) ELSE @]

\* _query_recent_changes: the rows with start <= timestamp <= end, newest
\* first, at most QueryLimit; [] when the query fails
query_recent_changes(table, start_time, end_time, query_fails) ==
    IF query_fails THEN <<>>
    ELSE LET hits == sorted_desc({r \in table : start_time <= r.timestamp
                                               /\ r.timestamp <= end_time})
             top == SubSeq(hits, 1, IF Len(hits) < QueryLimit THEN Len(hits)
                                    ELSE QueryLimit)
         IN  [i \in 1..Len(top) |-> row_to_migration(top[i])]

\* the context dictionary; has_* tell which keys were set before an exception
\* ended the gathering
gather_context(an, table, query_fails) ==
    LET recent == query_recent_changes(table,
                      an.detected_at - WindowHours * SecondsPerHour,
                      an.detected_at, query_fails)
        mi == analyze_migration_impact(an.detected_at, recent)
    IN  [historical_summary |-> "No historical data available",
         recent_changes |-> recent,
         has_migration_analysis |-> ~mi.raised,
         migration_analysis |-> IF mi.raised THEN NoResult ELSE mi.result,
         trend_analysis |-> IF mi.raised THEN "" ELSE "Insufficient data for trend analysis"]

NoContext ==
    [historical_summary |-> "", recent_changes |-> <<>>,
     has_migration_analysis |-> FALSE, migration_analysis |-> NoResult,
     trend_analysis |-> ""]

----------------------------------------------------------------------------
\* Root-cause resolver

\* the RootCause dataclass: the fields as given
RootCause(primary_cause, contributing_factors, confidence, evidence, correlation_data) ==
    [primary_cause |-> primary_cause, contributing_factors |-> contributing_factors,
     confidence |-> confidence, evidence |-> evidence,
     correlation_data |-> correlation_data]

NoRootCause == RootCause(JMissing, JMissing, JMissing, JMissing, EmptyCD)

\* _build_root_cause_prompt: json.dumps of recent_changes meets the datetime
\* under 'timestamp' of every row and raises TypeError
root_cause_prompt_raises(context) == context.recent_changes # <<>>

\* `'migration_analysis' not in correlation_data and context.get(...)` and the
\* assignment that follows: [raises, cd]
merge_correlation_data(cd_json, context) ==
    LET cd == IF cd_json.t = "missing" THEN EmptyCD ELSE cd_json
    IN  IF cd.t \notin {"map", "str", "list"}
        THEN [raises |-> TRUE, cd |-> cd]
        ELSE IF ~cd.has_ma /\ context.has_migration_analysis
        THEN IF cd.t = "map"
             THEN [raises |-> FALSE,
                   cd |-> CD("map", TRUE, cd.other, MAMap(context.migration_analysis))]
             ELSE [raises |-> TRUE, cd |-> cd]
        ELSE [raises |-> FALSE, cd |-> cd]

Failure(why) == [ok |-> FALSE, why |-> why, root_cause |-> NoRootCause]

\* _ai_root_cause_analysis: [ok, why, root_cause]; ok = FALSE is an exception
ai_root_cause_analysis(response, context) ==
    IF root_cause_prompt_raises(context) THEN Failure("prompt")
    ELSE IF response.call = "raises" THEN Failure("call")
    ELSE IF ~parses(response) THEN Failure("parse")
    ELSE LET result == response.payload
             merged == merge_correlation_data(result.correlation_data, context)
         IN  IF result.top # "object" THEN Failure("structure")
             ELSE IF merged.raises THEN Failure("correlation_data")
             ELSE IF \/ result.primary_cause.t = "missing"
                     \/ result.contributing_factors.t = "missing"
                     \/ result.confidence.t = "missing"
                     \/ result.evidence.t = "missing"
             THEN Failure("keys")
             ELSE [ok |-> TRUE, why |-> "",
                   root_cause |-> RootCause(result.primary_cause,
                                            result.contributing_factors,
                                            result.confidence, result.evidence,
                                            merged.cd)]

\* the table of _rule_based_root_cause
rule_primary_cause(an) ==
    CASE an.anomaly_type = "stability" ->
            JStr(<<"Elevated ", an.metric_name, " indicating system instability">>)
      [] an.anomaly_type = "performance" ->
            JStr(<<"Performance degradation in ", an.metric_name>>)
      [] an.anomaly_type = "cost" ->
            JStr(<<"Unexpected cost increase in ", an.metric_name>>)
      [] OTHER -> JStr(<<"Anomalous behavior detected in ", an.metric_name>>)

rule_factors(an) ==
    CASE an.anomaly_type = "stability" ->
            <<"Increased error rate beyond normal thresholds",
              "Potential resource contention",
              "Possible configuration changes">>
      [] an.anomaly_type = "performance" ->
            <<"Increased workload or traffic", "Resource bottleneck",
              "Inefficient processing">>
      [] an.anomaly_type = "cost" ->
            <<"Over-provisioned resources", "Inefficient resource utilization",
              "Unnecessary redundancy">>
      [] OTHER -> <<"Deviation from established baseline">>

\* the three evidence lines: fixed templates filled with the anomaly's
\* current_value, deviation_sigma, baseline_value, deviation_percentage and
\* confidence
rule_evidence(an) ==
    <<"Current value deviates sigma from baseline",
      "Deviation represents % change",
      "Confidence level">>

\* confidence=0.75, in hundredths
RuleConfidence == 75

\* _rule_based_root_cause
rule_based_root_cause_always_recent(an, context) ==
    RootCause(rule_primary_cause(an),
              JList(rule_factors(an) \o <<"Recent system changes or migrations">>),
              JNum(RuleConfidence),
              JList(rule_evidence(an)),
              EmptyCD)
rule_based_root_cause(an, context) ==
    RootCause(rule_primary_cause(an),
              JList(rule_factors(an)
                    \o (IF context.recent_changes # <<>>
                        THEN <<"Recent system changes or migrations">> ELSE <<>>)),
              JNum(RuleConfidence),
              JList(rule_evidence(an)),
              EmptyCD)

\* the generate_content calls of _analyze_root_cause: one in the reasoning
\* arm once the prompt is built, none in the deterministic arm
root_cause_capability_calls_retry(ai, response, context) ==
    IF ai /\ ~root_cause_prompt_raises(context)
    THEN IF ai_root_cause_analysis(response, context).ok THEN 1 ELSE 2
    ELSE 0
root_cause_capability_calls(ai, response, context) ==
    IF ai /\ ~root_cause_prompt_raises(context) THEN 1 ELSE 0

\* _analyze_root_cause: [raised, root_cause, arm, ai_failed, why]
analyze_root_cause_narrow_except(ai, response, an, context) ==
    LET r == ai_root_cause_analysis(response, context)
    IN  IF ai /\ r.ok
        THEN [raised |-> FALSE, root_cause |-> r.root_cause, arm |-> "ai",
              ai_failed |-> FALSE, why |-> ""]
        ELSE [raised |-> ai /\ r.why \in {"keys", "structure", "correlation_data"},
              root_cause |-> rule_based_root_cause(an, context),
              arm |-> "rule", ai_failed |-> ai, why |-> IF ai THEN r.why ELSE ""]
analyze_root_cause(ai, response, an, context) ==
    LET r == ai_root_cause_analysis(response, context)
    IN  IF ai /\ r.ok
        THEN [raised |-> FALSE, root_cause |-> r.root_cause, arm |-> "ai",
              ai_failed |-> FALSE, why |-> ""]
        ELSE [raised |-> FALSE, root_cause |-> rule_based_root_cause(an, context),
              arm |-> "rule", ai_failed |-> ai, why |-> IF ai THEN r.why ELSE ""]

----------------------------------------------------------------------------
\* Recommendation generator

\* the Recommendation dataclass: the fields as given
Recommendation(priority, action, rationale, expected_impact, steps, effort, risk_level, cost_impact) ==
    [priority |-> priority, action |-> action, rationale |-> rationale,
     expected_impact |-> expected_impact,
     implementation_steps |-> steps,
     estimated_effort |-> effort, risk_level |-> risk_level,
     cost_impact |-> cost_impact]

\* rec_data.get(key, default)
get_or(v, default) == IF v.t = "missing" THEN default ELSE v

\* _build_recommendation_prompt: ', '.join(contributing_factors) and
\* f"{confidence:.0%}" raise on values of other types
recommendation_prompt_raises(root_cause) ==
    \/ ~joinable(root_cause.contributing_factors)
    \/ root_cause.confidence.t # "num"

\* one rec_data of the response lacks a mandatory key, or is no object
rec_data_raises(rec_data) ==
    \/ rec_data.t # "map"
    \/ rec_data.priority.t = "missing"
    \/ rec_data.action.t = "missing"
    \/ rec_data.rationale.t = "missing"
    \/ rec_data.expected_impact.t = "missing"

build_recommendation(rec_data) ==
    Recommendation(rec_data.priority, rec_data.action, rec_data.rationale,
                   rec_data.expected_impact,
                   get_or(rec_data.implementation_steps, JList(<<>>)),
                   get_or(rec_data.estimated_effort, JStr(<<>>)),
                   get_or(rec_data.risk_level, JStr(<<"low">>)),
                   get_or(rec_data.cost_impact, JNull))

RecFailure(why) == [ok |-> FALSE, why |-> why, recommendations |-> <<>>]

\* the loop `for rec_data in result['recommendations']`: [ok, recommendations]
RECURSIVE build_recommendations(_, _)
build_recommendations(built, items) ==
    IF items = <<>> THEN [ok |-> TRUE, why |-> "", recommendations |-> built]
    ELSE IF rec_data_raises(Head(items)) THEN RecFailure("keys")
    ELSE build_recommendations(Append(built, build_recommendation(Head(items))),
                               Tail(items))
\* the same loop keeping what was built when a rec_data raises
RECURSIVE build_recommendations_partial(_, _)
build_recommendations_partial(built, items) ==
    IF items = <<>> \/ rec_data_raises(Head(items))
    THEN [ok |-> TRUE, why |-> "", recommendations |-> built]
    ELSE build_recommendations_partial(Append(built, build_recommendation(Head(items))),
                                       Tail(items))

\* _ai_generate_recommendations: [ok, why, recommendations]
ai_generate_recommendations(response, root_cause) ==
    IF recommendation_prompt_raises(root_cause) THEN RecFailure("prompt")
    ELSE IF response.call = "raises" THEN RecFailure("call")
    ELSE IF ~parses(response) THEN RecFailure("parse")
    ELSE LET result == response.payload
         IN  IF result.top # "object" \/ result.recommendations.t = "missing"
             THEN RecFailure("structure")
             ELSE IF result.recommendations.t \notin {"list", "str", "map"}
             THEN RecFailure("structure")
             ELSE build_recommendations(<<>>, result.recommendations.items)

Steps(items) == JList(items)
Text(t) == JStr(<<t>>)

\* the catalogue of _rule_based_recommendations, one list per anomaly type
stability_recommendations(an) ==
    <<Recommendation(Text("high"),
          JStr(<<"Investigate and address elevated ", an.metric_name>>),
          Text("High error rates indicate system instability that requires immediate attention"),
          Text("Restore system stability and prevent cascading failures"),
          Steps(<<"Review recent logs for error patterns",
                  "Check for resource constraints",
                  "Verify configuration changes",
                  "Implement additional error handling">>),
          Text("30-60 minutes"), Text("low"), JNull),
      Recommendation(Text("medium"),
          Text("Implement enhanced monitoring and alerting"),
          Text("Early detection prevents issues from escalating"),
          Text("Faster incident response and reduced downtime"),
          Steps(<<"Set up alerts for error rate thresholds",
                  "Configure log aggregation",
                  "Create dashboard for key metrics">>),
          Text("1-2 hours"), Text("low"), JNull)>>

performance_recommendations(an) ==
    <<Recommendation(Text("high"), Text("Optimize resource allocation"),
          Text("Performance degradation often indicates resource bottlenecks"),
          Text("Improve response times by 20-40%"),
          Steps(<<"Analyze resource utilization patterns",
                  "Identify bottlenecks (CPU, memory, I/O)",
                  "Scale resources appropriately",
                  "Implement caching where applicable">>),
          Text("1-3 hours"), Text("medium"), JNull),
      Recommendation(Text("medium"), Text("Review and optimize queries/operations"),
          Text("Inefficient operations compound under load"),
          Text("Reduce latency and improve throughput"),
          Steps(<<"Profile slow operations", "Optimize database queries",
                  "Implement connection pooling", "Add appropriate indexes">>),
          Text("2-4 hours"), Text("low"), JNull)>>

cost_recommendations(an) ==
    <<Recommendation(Text("high"), Text("Right-size over-provisioned resources"),
          Text("Resources are allocated beyond actual usage requirements"),
          Text("Reduce costs by 20-40% without performance impact"),
          Steps(<<"Analyze actual resource utilization",
                  "Identify over-provisioned instances",
                  "Gradually reduce resource allocation",
                  "Monitor performance during changes">>),
          Text("1-2 hours"), Text("low"),
          JStr(<<"Performance", " will not be affected because current utilization is well below provisioned capacity">>)),
      Recommendation(Text("medium"), Text("Implement auto-scaling policies"),
          Text("Match resource allocation to actual demand"),
          Text("Optimize costs while maintaining performance"),
          Steps(<<"Define scaling metrics and thresholds",
                  "Configure auto-scaling groups",
                  "Set minimum and maximum limits",
                  "Test scaling behavior">>),
          Text("2-3 hours"), Text("medium"),
          JStr(<<"Save ", "30-50%", " on compute costs during low-traffic periods">>))>>

\* _rule_based_recommendations
rule_based_recommendations_default_list(an) ==
    CASE an.anomaly_type = "stability" -> stability_recommendations(an)
      [] an.anomaly_type = "performance" -> performance_recommendations(an)
      [] an.anomaly_type = "cost" -> cost_recommendations(an)
      [] OTHER -> <<stability_recommendations(an)[2]>>
rule_based_recommendations(an) ==
    CASE an.anomaly_type = "stability" -> stability_recommendations(an)
      [] an.anomaly_type = "performance" -> performance_recommendations(an)
      [] an.anomaly_type = "cost" -> cost_recommendations(an)
      [] OTHER -> <<>>

\* the generate_content calls of _generate_recommendations
recommendation_capability_calls(ai, response, root_cause) ==
    IF ai /\ ~recommendation_prompt_raises(root_cause) THEN 1 ELSE 0

\* _generate_recommendations: [raised, recommendations, arm, ai_failed, why]
generate_recommendations_keep_partial(ai, response, an, root_cause) ==
    LET r == ai_generate_recommendations(response, root_cause)
        kept == IF r.why = "keys"
                THEN build_recommendations_partial(<<>>,
                         response.payload.recommendations.items).recommendations
                ELSE <<>>
    IN  IF ai /\ r.ok
        THEN [raised |-> FALSE, recommendations |-> r.recommendations, arm |-> "ai",
              ai_failed |-> FALSE, why |-> ""]
        ELSE [raised |-> FALSE,
              recommendations |-> IF ai /\ kept # <<>> THEN kept
                                  ELSE rule_based_recommendations(an),
              arm |-> "rule", ai_failed |-> ai, why |-> IF ai THEN r.why ELSE ""]
generate_recommendations(ai, response, an, root_cause) ==
    LET r == ai_generate_recommendations(response, root_cause)
    IN  IF ai /\ r.ok
        THEN [raised |-> FALSE, recommendations |-> r.recommendations, arm |-> "ai",
              ai_failed |-> FALSE, why |-> ""]
        ELSE [raised |-> FALSE, recommendations |-> rule_based_recommendations(an),
              arm |-> "rule", ai_failed |-> ai, why |-> IF ai THEN r.why ELSE ""]

----------------------------------------------------------------------------
\* Narrative composer.  Each field of the summary is kept as the record of the
\* choices that decide its text.

\* recommendations[:4], implementation_steps[:3], contributing_factors[:3]
TopRecommendations == 4
TopItems == 3

FirstN(seq, n) == SubSeq(seq, 1, IF Len(seq) < n THEN Len(seq) ELSE n)

\* _explain_what_happened: direction word and the affected-resources clause
explain_what_happened(an) ==
    [metric |-> an.metric_name,
     direction |-> IF an.current_value > an.baseline_value
                   THEN "increased" ELSE "decreased",
     resources |-> an.affected_resources]

\* the confidence bands of the closing sentence (confidence * 100)
confidence_band(hundredths) ==
    IF hundredths >= 90 THEN "very confident"
    ELSE IF hundredths >= 75 THEN "confident"
    ELSE IF hundredths >= 60 THEN "reasonably confident"
    ELSE "moderately confident"

\* the statements of _explain_why_it_happened that raise on a value of an
\* unexpected type: str += on the primary cause, [:3] on factors and evidence,
\* .get on correlation_data and on its migration_analysis, >= on confidence
explain_why_raises(rc) ==
    \/ rc.primary_cause.t # "str"
    \/ py_truthy(rc.contributing_factors) /\ ~sliceable(rc.contributing_factors)
    \/ py_truthy(rc.evidence) /\ ~sliceable(rc.evidence)
    \/ rc.correlation_data.t # "map"
    \/ rc.correlation_data.has_ma /\ rc.correlation_data.ma.t # "map"
    \/ rc.confidence.t # "num"

\* correlation_data.get('migration_analysis', {}).get('likely_cause')
migration_likely_cause(rc) ==
    /\ rc.correlation_data.t = "map"
    /\ rc.correlation_data.has_ma
    /\ rc.correlation_data.ma.t = "map"
    /\ rc.correlation_data.ma.val.likely_cause

explain_why_it_happened(rc) ==
    [primary_cause |-> rc.primary_cause,
     factors |-> IF py_truthy(rc.contributing_factors)
                 THEN FirstN(rc.contributing_factors.items, TopItems) ELSE <<>>,
     evidence |-> IF py_truthy(rc.evidence)
                  THEN FirstN(rc.evidence.items, TopItems) ELSE <<>>,
     migration_block |-> migration_likely_cause(rc),
     band |-> confidence_band(rc.confidence.n)]

\* _explain_impact: the paragraph of the type x severity matrix and the
\* urgency clause
explain_impact(an) ==
    [paragraph |-> <<an.anomaly_type, an.severity>>,
     urgency |-> an.severity \in {"critical", "high"}]

\* rec.priority.lower() and implementation_steps[:3] on the first four
explain_improvements_raises(recs) ==
    \E i \in 1..Len(FirstN(recs, TopRecommendations)) :
        \/ recs[i].priority.t # "str"
        \/ py_truthy(recs[i].implementation_steps)
              /\ ~sliceable(recs[i].implementation_steps)

StillAnalyzing ==
    [placeholder |-> TRUE, items |-> <<>>]

render_recommendation(rec) ==
    [priority |-> rec.priority, action |-> rec.action, rationale |-> rec.rationale,
     steps |-> IF py_truthy(rec.implementation_steps)
               THEN FirstN(rec.implementation_steps.items, TopItems) ELSE <<>>,
     effort |-> rec.estimated_effort]

\* _explain_improvements
explain_improvements(recs) ==
    IF recs = <<>> THEN StillAnalyzing
    ELSE [placeholder |-> FALSE,
          items |-> [i \in 1..Len(FirstN(recs, TopRecommendations)) |->
                        render_recommendation(recs[i])]]

\* 'performance' in rec.cost_impact.lower()
mentions_performance(v) ==
    v.t = "str" /\ \E i \in DOMAIN v.items :
                      v.items[i] \in {"performance", "Performance", "PERFORMANCE"}

\* any('performance' in rec.cost_impact.lower() if rec.cost_impact else False ...):
\* the scan stops at the first True; a truthy cost_impact that is no string
\* raises AttributeError when the scan reaches it
RECURSIVE performance_scan(_)
performance_scan(recs) ==
    IF recs = <<>> THEN "false"
    ELSE LET c == Head(recs).cost_impact
         IN  IF ~py_truthy(c) THEN performance_scan(Tail(recs))
             ELSE IF c.t # "str" THEN "raises"
             ELSE IF mentions_performance(c) THEN "true"
             ELSE performance_scan(Tail(recs))

explain_benefits_raises(an, recs) ==
    recs # <<>> /\ an.anomaly_type = "cost" /\ performance_scan(recs) = "raises"

\* _explain_benefits: placeholder, the cost figures, the closing paragraphs
explain_benefits(an, recs) ==
    IF recs = <<>>
    THEN [placeholder |-> TRUE, kind |-> "", excess_cost |-> 0, monthly_savings |-> 0,
          no_trade_off |-> FALSE, quick_wins |-> FALSE]
    ELSE [placeholder |-> FALSE, kind |-> an.anomaly_type,
          excess_cost |-> IF an.anomaly_type = "cost"
                          THEN an.current_value - an.baseline_value ELSE 0,
          monthly_savings |-> IF an.anomaly_type = "cost"
                              THEN (an.current_value - an.baseline_value) * 30 ELSE 0,
          no_trade_off |-> an.anomaly_type = "cost" /\ performance_scan(recs) = "true",
          quick_wins |-> an.severity \in {"critical", "high"}]

\* the HumanReadableSummary dataclass
HumanReadableSummary(what, why, impact, improvements, benefit) ==
    [what_happened |-> what, why_it_happened |-> why, what_is_the_impact |-> impact,
     what_improvements_can_be_made |-> improvements,
     estimated_benefit_if_implemented |-> benefit]

\* _generate_human_readable_summary raises
summary_raises(an, rc, recs) ==
    \/ explain_why_raises(rc)
    \/ explain_improvements_raises(recs)
    \/ explain_benefits_raises(an, recs)

generate_human_readable_summary(an, rc, recs) ==
    HumanReadableSummary(explain_what_happened(an), explain_why_it_happened(rc),
                         explain_impact(an), explain_improvements(recs),
                         explain_benefits(an, recs))

\* _predict_impact
predict_impact(an) ==
    CASE an.severity = "critical" ->
            "Immediate service disruption likely. User impact imminent."
      [] an.severity = "high" ->
            "Significant degradation expected within hours. Action required soon."
      [] an.severity = "medium" ->
            "Gradual degradation over days. Should be addressed proactively."
      [] an.severity = "low" -> "Minor impact. Monitor for escalation."
      [] OTHER -> "Impact assessment pending"

\* ai_model_used=self.config.insight_model if self.ai_available else "rule-based"
ai_model_used(ai) == IF ai THEN InsightModel ELSE "rule-based"

\* the AnomalyAnalysis dataclass
AnomalyAnalysis(an, rc, recs, duration, model, historical_context, trend_analysis, predicted_impact, summary) ==
    [anomaly |-> an, root_cause |-> rc, recommendations |-> recs,
     analysis_duration_ms |-> duration, ai_model_used |-> model, historical_context |-> historical_context,
     trend_analysis |-> trend_analysis, predicted_impact |-> predicted_impact,
     summary |-> summary]

----------------------------------------------------------------------------
\* _save_analysis

\* the row handed to insert_rows_json
analysis_row(a) ==
    [anomaly_id |-> a.anomaly.anomaly_id,
     anomaly_type |-> a.anomaly.anomaly_type,
     severity |-> a.anomaly.severity,
     root_cause_primary |-> a.root_cause.primary_cause,
     root_cause_factors |-> a.root_cause.contributing_factors,
     root_cause_confidence |-> a.root_cause.confidence,
     root_cause_evidence |-> a.root_cause.evidence,
     recommendations |-> a.recommendations,
     summary |-> a.summary,
     analysis_duration_ms |-> a.analysis_duration_ms,
     ai_model_used |-> a.ai_model_used,
     migration_detected |-> migration_likely_cause(a.root_cause),
     migration_summary |->
        IF a.root_cause.correlation_data.has_ma
        THEN a.root_cause.correlation_data.ma.val.impact_summary
        ELSE Summary("null", 0, <<>>),
     is_false_positive |-> "null", reviewed_by |-> "null", reviewed_at |-> "null",
     review_notes |-> "null", feedback_category |-> "null",
     notified |-> FALSE, notification_attempts |-> 0]

----------------------------------------------------------------------------
\* State of the pipeline between calls

NoAnomaly ==
    [anomaly_id |-> "", detected_at |-> 0, metric_name |-> "", anomaly_type |-> "",
     severity |-> "", current_value |-> 0, baseline_value |-> 0,
     deviation_sigma |-> 0, deviation_percentage |-> 0, confidence |-> 0,
     affected_resources |-> 0]

NoSummary == generate_human_readable_summary(NoAnomaly, NoRootCause, <<>>)
\* duration_ms before line 105 assigns it
NoDuration == -1
NoAnalysis ==
    AnomalyAnalysis(NoAnomaly, NoRootCause, <<>>, NoDuration, "", "", "", "", NoSummary)
NoRow == analysis_row(NoAnalysis)

PipelineIdle ==
    /\ pc = "idle"
    /\ raised_at = ""
    /\ anomaly = NoAnomaly
    /\ ctx = NoContext
    /\ root = NoRootCause
    /\ recommendations = <<>>
    /\ analysis = NoAnalysis
    /\ rc_arm = ""
    /\ rec_arm = ""
    /\ rc_answer = ""
    /\ rec_answer = ""
    /\ writes = 0
    /\ clock = 0
    /\ analysis_start = 0
    /\ duration_ms = NoDuration
    /\ rc_calls = 0
    /\ rec_calls = 0
    /\ row = NoRow

----------------------------------------------------------------------------
\* AIBaselineOptimizer.  Numbers are in hundredths: a confidence of 0.75 is 75,
\* a mean of 10.0 is 1000.

\* self.config.get('baseline.ai_confidence_threshold', 0.75)
DefaultThreshold == 75
\* elif sample_count > 10000
LargeSampleCount == 10000

\* a series as _analyze_data_characteristics reads it: len(data), data.mean(),
\* data.std() and the slope of the fitted line
Series(n, mean, std_dev, trend_slope) ==
    [sample_count |-> n, mean |-> mean, std_dev |-> std_dev, trend_slope |-> trend_slope]

Abs(x) == IF x < 0 THEN -x ELSE x

\* abs(trend_slope) < 0.01 * mean on doubles.  Off a tie the rounding of the
\* three doubles is far smaller than the difference of the two sides; on a tie
\* (100 * |slope| = mean) the rounded product decides
slope_below_hundredth(slope, mean) ==
    IF 100 * Abs(slope) # mean THEN 100 * Abs(slope) < mean
    ELSE IF mean = 0 THEN FALSE
    ELSE DoubleBelowProduct(Double(Abs(slope), 100), Double(1, 100),
                            Double(mean, 100))

\* abs(trend_slope) < 0.01 * mean, then the sign of the slope
trend_of(d) ==
    IF slope_below_hundredth(d.trend_slope, d.mean) THEN "stable"
    ELSE IF d.trend_slope > 0 THEN "increasing"
    ELSE "decreasing"

\* data.std() of a single sample is NaN; the model writes it as -1
NaN == -1

\* cv = std_dev / mean if mean != 0 else 0 ; cv < 0.1, cv < 0.3 (a comparison
\* with NaN is False)
cv_below(d, tenths) ==
    IF d.mean = 0 THEN TRUE
    ELSE IF d.std_dev = NaN THEN FALSE
    ELSE IF d.mean < 0 THEN 10 * d.std_dev > tenths * d.mean
    ELSE IF 10 * d.std_dev # tenths * d.mean THEN 10 * d.std_dev < tenths * d.mean
    ELSE DoubleQuotientBelow(Double(d.std_dev, 100), Double(d.mean, 100),
                             Double(tenths, 10))

volatility_of(d) ==
    IF cv_below(d, 1) THEN "low"
    ELSE IF cv_below(d, 3) THEN "medium"
    ELSE "high"

\* _analyze_data_characteristics: the keys the recommendation depends on
analyze_data_characteristics(d) ==
    [sample_count |-> d.sample_count, trend |-> trend_of(d),
     volatility |-> volatility_of(d), seasonality |-> "unknown"]

\* the dictionary of a recommendation
MethodRecommendation(method, confidence, reasoning, lookback_days, characteristics) ==
    [recommended_method |-> method, confidence |-> confidence, reasoning |-> reasoning,
     lookback_days |-> lookback_days, data_characteristics |-> characteristics]

\* _rule_based_recommendation
rule_based_recommendation_trend_first(characteristics) ==
    IF characteristics.trend # "stable"
    THEN MethodRecommendation(JStr(<<"rolling_average">>), JNum(85),
             JStr(<<"Data shows ", characteristics.trend, " trend.">>), JNum(21),
             characteristics)
    ELSE IF characteristics.volatility = "high"
    THEN MethodRecommendation(JStr(<<"rolling_average">>), JNum(80),
             JStr(<<"High volatility detected.">>), JNum(14), characteristics)
    ELSE IF characteristics.sample_count > LargeSampleCount
    THEN MethodRecommendation(JStr(<<"seasonal_decomposition">>), JNum(70),
             JStr(<<"Large dataset available.">>), JNum(90), characteristics)
    ELSE MethodRecommendation(JStr(<<"simple_stats">>), JNum(75),
             JStr(<<"Data shows stable characteristics">>), JNum(30), characteristics)
rule_based_recommendation(characteristics) ==
    IF characteristics.volatility = "high"
    THEN MethodRecommendation(JStr(<<"rolling_average">>), JNum(80),
             JStr(<<"High volatility detected.">>), JNum(14), characteristics)
    ELSE IF characteristics.trend # "stable"
    THEN MethodRecommendation(JStr(<<"rolling_average">>), JNum(85),
             JStr(<<"Data shows ", characteristics.trend, " trend.">>), JNum(21),
             characteristics)
    ELSE IF characteristics.sample_count > LargeSampleCount
    THEN MethodRecommendation(JStr(<<"seasonal_decomposition">>), JNum(70),
             JStr(<<"Large dataset available.">>), JNum(90), characteristics)
    ELSE MethodRecommendation(JStr(<<"simple_stats">>), JNum(75),
             JStr(<<"Data shows stable characteristics">>), JNum(30), characteristics)

\* _call_vertex_ai raises: the call, json.loads, result['recommended_method'],
\* f"{result['confidence']:.0%}", result['data_characteristics'] = ...
call_vertex_ai_raises(response) ==
    \/ response.call = "raises"
    \/ ~parses(response)
    \/ response.payload.top # "object"
    \/ response.payload.recommended_method.t = "missing"
    \/ response.payload.confidence.t # "num"

\* _call_vertex_ai: the decoded object with data_characteristics added
call_vertex_ai(response, characteristics) ==
    MethodRecommendation(response.payload.recommended_method,
                         response.payload.confidence, response.payload.reasoning,
                         response.payload.lookback_days, characteristics)

\* _get_ai_recommendation
get_ai_recommendation(ai, response, characteristics) ==
    IF ai /\ ~call_vertex_ai_raises(response)
    THEN call_vertex_ai(response, characteristics)
    ELSE rule_based_recommendation(characteristics)

\* the log lines of the accepted branch: recommendation['reasoning'][:100]
accept_log_raises(recommendation) == ~sliceable(recommendation.reasoning)

\* analyze_metric, after the characteristics
select_recommendation_strict_gate(use_ai, ai, threshold, response, characteristics) ==
    LET recommendation == get_ai_recommendation(ai, response, characteristics)
    IN  IF /\ use_ai /\ ai
           /\ recommendation.confidence.n > threshold
           /\ ~accept_log_raises(recommendation)
        THEN recommendation
        ELSE rule_based_recommendation(characteristics)
select_recommendation(use_ai, ai, threshold, response, characteristics) ==
    LET recommendation == get_ai_recommendation(ai, response, characteristics)
    IN  IF /\ use_ai /\ ai
           /\ recommendation.confidence.n >= threshold
           /\ ~accept_log_raises(recommendation)
        THEN recommendation
        ELSE rule_based_recommendation(characteristics)

\* analyze_metric
analyze_metric(use_ai, ai, threshold, response, d) ==
    select_recommendation(use_ai, ai, threshold, response,
                          analyze_data_characteristics(d))

----------------------------------------------------------------------------
\* BaselineCalculator

\* config.baseline_lookback_days
DefaultLookbackDays == 30
\* LIMIT 10000 of the sample query of calculate_baseline_with_ai
SampleLimit == 10000

\* the row of the statistics query: COUNT(*) and seven statistics, each a
\* number or NULL
StatsRow(n, mean, std_dev, min_value, max_value, p50, p95, p99) ==
    [sample_count |-> n, mean |-> mean, std_dev |-> std_dev, min_value |-> min_value,
     max_value |-> max_value, p50 |-> p50, p95 |-> p95, p99 |-> p99]

\* the BaselineStats dataclass; notes holds the column and the method the note
\* names
BaselineStats(metric, mean, std_dev, min_value, max_value, p50, p95, p99, lookback, n, notes) ==
    [metric_name |-> metric, mean |-> mean, std_dev |-> std_dev,
     min_value |-> min_value, max_value |-> max_value, p50 |-> p50, p95 |-> p95,
     p99 |-> p99, lookback_days |-> lookback, sample_count |-> n, notes |-> notes]

NoBaseline == BaselineStats("", 0, 0, 0, 0, 0, 0, 0, JNull, 0, "")

\* float(row[k]) if row[k] is not None else 0.0
float_or_zero(v) == IF v.k = "null" THEN 0 ELSE v.n

Returned_(baseline) == [raised |-> FALSE, error |-> "", baseline |-> baseline]
Raised_(error) == [raised |-> TRUE, error |-> error, baseline |-> NoBaseline]

\* the BaselineStats built from the row
baseline_of_row_percentiles_swapped(stats, metric, lookback) ==
    BaselineStats(metric, float_or_zero(stats.mean), float_or_zero(stats.std_dev),
                  float_or_zero(stats.min_value), float_or_zero(stats.max_value),
                  float_or_zero(stats.p50), float_or_zero(stats.p99),
                  float_or_zero(stats.p95), lookback, stats.sample_count,
                  "simple_stats")
baseline_of_row(stats, metric, lookback) ==
    BaselineStats(metric, float_or_zero(stats.mean), float_or_zero(stats.std_dev),
                  float_or_zero(stats.min_value), float_or_zero(stats.max_value),
                  float_or_zero(stats.p50), float_or_zero(stats.p95),
                  float_or_zero(stats.p99), lookback, stats.sample_count,
                  "simple_stats")

\* _calculate_simple_stats: the query raises, yields no row, counts no sample,
\* or yields the statistics
calculate_simple_stats_unvalidated(store, metric, lookback) ==
    IF store.stats = "error" THEN Raised_("store_error")
    ELSE IF store.stats = "no_row" THEN Raised_("no_data")
    ELSE Returned_(baseline_of_row(store.row, metric, lookback))
calculate_simple_stats(store, metric, lookback) ==
    IF store.stats = "error" THEN Raised_("store_error")
    ELSE IF store.stats = "no_row" THEN Raised_("no_data")
    ELSE IF store.row.sample_count = 0 THEN Raised_("no_data")
    ELSE Returned_(baseline_of_row(store.row, metric, lookback))

\* _calculate_rolling_average and _calculate_seasonal_decomposition
calculate_rolling_average(store, metric, lookback) ==
    calculate_simple_stats(store, metric, lookback)
calculate_seasonal_decomposition(store, metric, lookback) ==
    calculate_simple_stats(store, metric, lookback)

\* calculate_baseline.  lookback_arg is the Python value passed as
\* lookback_days (JNull is None): `lookback_days or self.lookback_days` keeps
\* every truthy value as it is, a number or not, and the baseline carries it.
\* The method "" stands for None.
calculate_baseline(store, config_method, metric, lookback_arg, method_arg) ==
    LET lookback == IF py_truthy(lookback_arg) THEN lookback_arg
                    ELSE JNum(DefaultLookbackDays)
        method == IF method_arg = "" THEN config_method ELSE method_arg
    IN  CASE method = "simple_stats" -> calculate_simple_stats(store, metric, lookback)
          [] method = "rolling_average" ->
                calculate_rolling_average(store, metric, lookback)
          [] method = "seasonal_decomposition" ->
                calculate_seasonal_decomposition(store, metric, lookback)
          [] OTHER -> calculate_simple_stats(store, metric, lookback)

\* df['value'] of the sample query `SELECT col ... LIMIT 10000`: the rows the
\* store returned, as a series.  Its mean, std() and slope are those of the
\* rows returned, not of the whole column
sample_of(store) == store.rows

\* recommendation['recommended_method'] as the calculation_method argument of
\* calculate_baseline: the method a non-empty string names; every other value
\* selects, like None or an unknown name, a calculation with the same result
method_of(v) == IF v.t = "str" /\ v.items # <<>> THEN v.items[1] ELSE ""

\* the try block of calculate_baseline_with_ai: [raised, outcome]
with_ai_attempt(store, config_method, use_ai, ai, threshold, response, analysis_fails, metric) ==
    IF store.sample = "error" THEN [raised |-> TRUE, outcome |-> Raised_("store_error")]
    ELSE IF sample_of(store).sample_count = 0
    THEN LET r == calculate_baseline(store, config_method, metric, JNull, "")
         IN  [raised |-> r.raised, outcome |-> r]
    ELSE IF analysis_fails THEN [raised |-> TRUE, outcome |-> Raised_("analysis")]
    ELSE LET recommendation == analyze_metric(use_ai, ai, threshold, response,
                                              sample_of(store))
         IN  IF recommendation.lookback_days.t = "missing"
             THEN [raised |-> TRUE, outcome |-> Raised_("recommendation")]
             ELSE LET r == calculate_baseline(store, config_method, metric,
                               recommendation.lookback_days,
                               method_of(recommendation.recommended_method))
                  IN  [raised |-> r.raised, outcome |-> r]

\* calculate_baseline_with_ai: the attempt, and on any exception the standard
\* calculation
calculate_baseline_with_ai(store, config_method, use_ai, ai, threshold, response, analysis_fails, metric) ==
    LET attempt == with_ai_attempt(store, config_method, use_ai, ai, threshold,
                                   response, analysis_fails, metric)
    IN  IF attempt.raised
        THEN calculate_baseline(store, config_method, metric, JNull, "")
        ELSE attempt.outcome

\* the baseline engine before an operation
NoRecommendation == MethodRecommendation(JMissing, JMissing, JMissing, JMissing,
                                         analyze_data_characteristics(Series(0, 0, 0, 0)))
NoOutcome == [raised |-> FALSE, error |-> "", baseline |-> NoBaseline]

----------------------------------------------------------------------------
\* Texts the reasoning capability answers with

\* texts around a JSON value that the parsing accepts
JsonTexts ==
    {<<"PAYLOAD">>,
     <<"WS", "PAYLOAD", "WS">>,
     <<"FENCE", "JSONTAG", "WS", "PAYLOAD", "WS", "FENCE">>,
     <<"FENCE", "WS", "PAYLOAD", "WS", "FENCE">>,
     <<"FENCE", "JSONTAG", "WS", "PAYLOAD">>,
     <<"FENCE", "JSONTAG", "WS", "PAYLOAD", "WS", "FENCE", "WS", "PROSE">>}
\* texts that hold no JSON value
NonJsonTexts ==
    {<<"PROSE">>, <<>>, <<"FENCE", "JSONTAG", "WS", "PROSE", "WS", "FENCE">>,
     <<"FENCE", "JSONTAG", "FENCE">>}
\* a fenced JSON value after an introduction
JsonInProseTexts ==
    {<<"PROSE", "WS", "FENCE", "JSONTAG", "WS", "PAYLOAD", "WS", "FENCE">>,
     <<"PAYLOAD", "WS", "PROSE">>}

\* the behaviours of the capability on one call; answer names the behaviour.
\* Every text shape carries the well-formed value, every value comes in the
\* fenced shape the prompts ask for.
Responses(payloads, good) ==
    {[answer |-> "raises", call |-> "raises", tokens |-> <<>>, payload |-> good]}
    \cup {[answer |-> "non_json", call |-> "returns", tokens |-> t, payload |-> good] :
             t \in NonJsonTexts}
    \cup {[answer |-> "json_in_prose", call |-> "returns", tokens |-> t, payload |-> good] :
             t \in JsonInProseTexts}
    \cup {[answer |-> "good", call |-> "returns", tokens |-> t, payload |-> good] :
             t \in JsonTexts}
    \cup {[answer |-> p.answer, call |-> "returns",
           tokens |-> <<"FENCE", "JSONTAG", "WS", "PAYLOAD", "WS", "FENCE">>,
           payload |-> p] : p \in payloads}

\* the capability was not called
NotCalled(good) ==
    [answer |-> "not_called", call |-> "raises", tokens |-> <<>>, payload |-> good]

----------------------------------------------------------------------------
\* Inputs of SpecBaseline

Stat(n) == [k |-> "int", n |-> n]

\* rows the statistics query returns (aggregates over the non-NULL values of
\* the column) for a column of 500 values around 10.00, of 20000 values, of one
\* value (STDDEV of one value is NULL), of negative values and of no value
\* (every aggregate but the count is NULL)
SteadyRow == StatsRow(500, Stat(1000), Stat(50), Stat(800), Stat(1100), Stat(1000),
                      Stat(1080), Stat(1090))
VolatileRow == StatsRow(500, Stat(1000), Stat(400), Stat(100), Stat(2400), Stat(900),
                        Stat(1900), Stat(2300))
LargeRow == [SteadyRow EXCEPT !.sample_count = 20000]
\* a column of 10000 times 10.00 and 10000 times 30.00
TwoLevelRow == StatsRow(20000, Stat(2000), Stat(1000), Stat(1000), Stat(3000), Stat(1000),
                        Stat(3000), Stat(3000))
SingleRow == StatsRow(1, Stat(500), Null, Stat(500), Stat(500), Stat(500), Stat(500),
                      Stat(500))
NegativeRow == StatsRow(10, Stat(-500), Stat(20), Stat(-560), Stat(-450), Stat(-500),
                        Stat(-460), Stat(-455))
EmptyRow == StatsRow(0, Null, Null, Null, Null, Null, Null, Null)

\* a store: how the statistics query and the sample query end (stats, sample),
\* the row of the statistics query and the rows of the sample query
Store(stats, sample, stats_row, sample_rows) ==
    [stats |-> stats, sample |-> sample, row |-> stats_row, rows |-> sample_rows]

\* the sample of a column of at most SampleLimit values is the whole column:
\* its count and mean are the row's, its std() is NaN where STDDEV is NULL
column_sample(stats_row, trend_slope) ==
    Series(stats_row.sample_count, float_or_zero(stats_row.mean),
           IF stats_row.std_dev.k = "null" THEN NaN ELSE stats_row.std_dev.n,
           trend_slope)

\* of a longer column the sample query returns SampleLimit values, whichever
\* the store picks: of LargeRow's column values spread like the whole, of
\* TwoLevelRow's the values of one level, of the other, or of both
Stores ==
    {Store("ok", "ok", r, column_sample(r, sl)) :
        r \in {SteadyRow, VolatileRow, NegativeRow},
        sl \in {0, 20}}
    \cup {Store("ok", "ok", LargeRow, Series(SampleLimit, 1000, 50, sl)) : sl \in {0, 20}}
    \cup {Store("ok", "ok", TwoLevelRow, d) :
             d \in {Series(SampleLimit, 1000, 0, 0), Series(SampleLimit, 3000, 0, 0),
                    Series(SampleLimit, 2000, 1000, 0)}}
    \cup {Store("ok", "ok", SingleRow, column_sample(SingleRow, 0)),
          Store("ok", "ok", EmptyRow, column_sample(EmptyRow, 0)),
          Store("error", "ok", SteadyRow, column_sample(SteadyRow, 0)),
          Store("no_row", "ok", SteadyRow, column_sample(SteadyRow, 0)),
          Store("ok", "error", SteadyRow, column_sample(SteadyRow, 0)),
          Store("error", "error", SteadyRow, column_sample(SteadyRow, 0))}

\* series for analyze_metric: every volatility, trend and size class, and the
\* values next to each comparison
SeriesCatalog ==
    {Series(n, 1000, sd, sl) :
        n \in {2, LargeSampleCount, LargeSampleCount + 1},
        sd \in {99, 100, 299, 300},
        sl \in {0, 9, 10, -10}}
    \cup {Series(1, 500, NaN, 0), Series(50, 0, 10, 0), Series(50, -500, 20, 0)}

Thresholds == {DefaultThreshold, 90}
ConfigMethods == {"simple_stats", "rolling_average"}
MethodArguments == {"", "simple_stats", "rolling_average", "seasonal_decomposition",
                    "median"}
LookbackArguments == {JNull, JNum(14)}

\* answers to the optimizer's prompt
OptimizerJson(answer, top, method, confidence, reasoning, lookback_days) ==
    [answer |-> answer, top |-> top, recommended_method |-> method,
     confidence |-> confidence, reasoning |-> reasoning, lookback_days |-> lookback_days]

GoodOptimizerJson(method, confidence) ==
    OptimizerJson("good", "object", JStr(<<method>>), JNum(confidence),
                  JStr(<<"reasoning of the capability">>), JNum(60))

OptimizerJsons ==
    {GoodOptimizerJson("seasonal_decomposition", c) : c \in {0, 74, 75, 76, 89, 90, 100}}
    \cup {GoodOptimizerJson("simple_stats", 76), GoodOptimizerJson("rolling_average", 76)}
    \cup {[GoodOptimizerJson("seasonal_decomposition", 95) EXCEPT
              !.answer = "not_object", !.top = "array"],
          [GoodOptimizerJson("seasonal_decomposition", 95) EXCEPT
              !.answer = "missing_key", !.recommended_method = JMissing],
          [GoodOptimizerJson("seasonal_decomposition", 95) EXCEPT
              !.answer = "missing_key", !.confidence = JMissing],
          [GoodOptimizerJson("seasonal_decomposition", 95) EXCEPT
              !.answer = "missing_key", !.reasoning = JMissing],
          [GoodOptimizerJson("seasonal_decomposition", 95) EXCEPT
              !.answer = "missing_key", !.lookback_days = JMissing],
          [GoodOptimizerJson("seasonal_decomposition", 95) EXCEPT
              !.answer = "odd_type", !.confidence = JStr(<<"high">>)],
          [GoodOptimizerJson("seasonal_decomposition", 95) EXCEPT
              !.answer = "odd_type", !.reasoning = JNull],
          [GoodOptimizerJson("seasonal_decomposition", 95) EXCEPT
              !.answer = "odd_type", !.lookback_days = JStr(<<"60">>)],
          [GoodOptimizerJson("seasonal_decomposition", 95) EXCEPT
              !.answer = "odd_type", !.lookback_days = JNull],
          [GoodOptimizerJson("median", 95) EXCEPT !.answer = "unknown_method"]}

OptimizerResponses ==
    Responses(OptimizerJsons, GoodOptimizerJson("seasonal_decomposition", 95))

NoResponse == NotCalled(GoodOptimizerJson("seasonal_decomposition", 95))

BaselineIdle ==
    /\ b_pc = "ready"
    /\ b_op = ""
    /\ b_request = ""
    /\ b_data = Series(0, 0, 0, 0)
    /\ b_response = NoResponse
    /\ b_recommendation = NoRecommendation
    /\ b_outcome = NoOutcome

\* no thread is modelled
ThreadsOff ==
    /\ t_calls = <<>>
    /\ t_rows = {}
    /\ t_constructed = FALSE

\* no call on the Baseline table is modelled
SaveOff ==
    /\ s_pc = "off"
    /\ s_metrics = <<>>
    /\ s_stores = <<>>
    /\ s_table = <<>>
    /\ s_passed = <<>>
    /\ s_saved = <<>>
    /\ s_held = NoBaseline
    /\ s_ops = 0
    /\ s_idx = 0
    /\ s_baselines = <<>>
    /\ s_log = <<>>

BaselineOff ==
    /\ BaselineIdle
    /\ b_config_use_ai = FALSE
    /\ b_config_threshold = DefaultThreshold
    /\ b_use_ai = FALSE
    /\ b_ai_available = FALSE
    /\ b_threshold = DefaultThreshold
    /\ b_method = "simple_stats"
    /\ b_store = Store("ok", "ok", EmptyRow, column_sample(EmptyRow, 0))

----------------------------------------------------------------------------
\* Inputs of SpecCorrelate

DetectedAtChoices == {200000}

user_migration == <<"u","s","e","r","_","m","i","g","r","a","t","i","o","n">>
deployment == <<"d","e","p","l","o","y","m","e","n","t">>
New_Feature == <<"N","e","w","_","F","e","a","t","u","r","e">>
FUNCTIONALITY_CHANGE == <<"F","U","N","C","T","I","O","N","A","L","I","T","Y","_",
                          "C","H","A","N","G","E">>

\* distances (seconds) of a migration before the anomaly, around each comparison:
\* after the anomaly, 0 h, 5.99 h, 6.0 h, 24.0 h, just over 24 h
BoundaryOffsets ==
    {-1, 0,
     LikelyCauseHours * SecondsPerHour - 36, LikelyCauseHours * SecondsPerHour,
     WindowHours * SecondsPerHour, WindowHours * SecondsPerHour + 1}

\* a user migration at every boundary distance
BoundaryEvents(d) ==
    {Migration("users", Type(user_migration), d - off, Num(5), NoReqs) :
        off \in BoundaryOffsets}

\* one hour before the anomaly: every way a migration does or does not
\* produce notes
ProfileEvents(d) ==
    LET at == d - SecondsPerHour
    IN  {Migration("plain", Type(deployment), at, Num(0), NoReqs),
         Migration("feature", Type(New_Feature), at, Absent, NoReqs),
         Migration("functionality", Type(FUNCTIONALITY_CHANGE), at, Num(0),
                   Reqs(Absent, Absent, FALSE)),
         Migration("cpu", Type(deployment), at, Num(0), Reqs(Num(20), Absent, FALSE)),
         Migration("memory", Type(deployment), at, Num(0), Reqs(Absent, Num(10), FALSE)),
         Migration("cpu0", Type(deployment), at, Num(0), Reqs(Num(0), Null, FALSE)),
         Migration("disk", Type(deployment), at, Num(0), Reqs(Absent, Absent, TRUE)),
         Migration("all", Type(New_Feature), at, Num(5), Reqs(Num(20), Num(10), FALSE)),
         Migration("fewer_users", Type(user_migration), at, Num(-3), NoReqs),
         Migration("null_users", Type(user_migration), at, Null, NoReqs),
         Migration("null_type", [k |-> "null", chars |-> <<>>], at, Num(0), NoReqs),
         Migration("null_reqs", Type(deployment), at, Num(0), NullReqs),
         Migration("bare", NoType, at, Absent, NoReqs),
         Migration("late_feature", Type(New_Feature),
                   d - (LikelyCauseHours + 1) * SecondsPerHour, Absent, NoReqs)}

EventCatalog(d) == BoundaryEvents(d) \cup ProfileEvents(d)

SeqsUpTo(S, n) == UNION {[1..k -> S] : k \in 0..n}

\* number of calls made on the same arguments
MaxCalls == 2

----------------------------------------------------------------------------
\* SpecCorrelate: _analyze_migration_impact, called MaxCalls times on the same
\* arguments

InitCorrelate ==
    /\ c_detected_at \in DetectedAtChoices
    /\ c_migrations \in SeqsUpTo(EventCatalog(c_detected_at), MaxMigrations)
    /\ c_args0 = [detected_at |-> c_detected_at, migrations |-> c_migrations]
    /\ c_pc = "call"
    /\ c_idx = 0
    /\ c_related = <<>>
    /\ c_factors = <<>>
    /\ c_result = NoResult
    /\ c_first = NoResult
    /\ c_calls = 0
    /\ PipelineIdle
    /\ ai_available = TRUE
    /\ migrations_table = {}
    /\ BaselineOff
    /\ SaveOff
    /\ ThreadsOff

\* entry of the call: the early return, or the fresh accumulators
CorrelateBegin ==
    /\ UNCHANGED <<p_vars, b_vars, s_vars, t_vars>>
    /\ c_pc = "call"
    /\ IF c_migrations = <<>>
       THEN /\ c_pc' = "done"
            /\ c_result' = early_result
            /\ c_first' = IF c_calls = 0 THEN early_result ELSE c_first
            /\ c_calls' = c_calls + 1
            /\ UNCHANGED <<c_idx, c_related, c_factors>>
       ELSE /\ c_pc' = "loop"
            /\ c_idx' = 1
            /\ c_related' = new_related_migrations
            /\ c_factors' = new_impact_factors
            /\ UNCHANGED <<c_result, c_first, c_calls>>
    /\ UNCHANGED <<c_detected_at, c_migrations, c_args0>>

\* one iteration of the loop
CorrelateIterate ==
    /\ UNCHANGED <<p_vars, b_vars, s_vars, t_vars>>
    /\ c_pc = "loop"
    /\ c_idx <= Len(c_migrations)
    /\ LET acc == migration_step([raised |-> FALSE, related |-> c_related,
                                  factors |-> c_factors],
                                 c_migrations[c_idx], c_detected_at)
       IN  IF acc.raised
           THEN /\ c_pc' = "raised"
                /\ UNCHANGED <<c_idx, c_related, c_factors>>
           ELSE /\ c_related' = acc.related
                /\ c_factors' = acc.factors
                /\ c_idx' = c_idx + 1
                /\ UNCHANGED c_pc
    /\ UNCHANGED <<c_detected_at, c_migrations, c_args0, c_result, c_first, c_calls>>

\* after the loop: likely_cause, impact_summary, return
CorrelateReturn ==
    /\ UNCHANGED <<p_vars, b_vars, s_vars, t_vars>>
    /\ c_pc = "loop"
    /\ c_idx > Len(c_migrations)
    /\ c_pc' = "done"
    /\ c_result' = loop_result(c_related, c_factors)
    /\ c_first' = IF c_calls = 0 THEN loop_result(c_related, c_factors) ELSE c_first
    /\ c_calls' = c_calls + 1
    /\ UNCHANGED <<c_detected_at, c_migrations, c_args0, c_idx, c_related, c_factors>>

\* the caller calls again with the same arguments
CorrelateAgain ==
    /\ UNCHANGED <<p_vars, b_vars, s_vars, t_vars>>
    /\ c_pc = "done"
    /\ c_calls < MaxCalls
    /\ c_pc' = "call"
    /\ UNCHANGED <<c_detected_at, c_migrations, c_args0, c_idx, c_related,
                   c_factors, c_result, c_first, c_calls>>

NextCorrelate == CorrelateBegin \/ CorrelateIterate \/ CorrelateReturn \/ CorrelateAgain

SpecCorrelate == InitCorrelate /\ [][NextCorrelate]_vars

----------------------------------------------------------------------------
\* Inputs of Spec

\* most recommendations in one answer of the capability
MaxAIRecs == 2

AnomalyTypes == {"stability", "performance", "cost", "resource"}
Severities == {"critical", "high", "medium", "low"}

MetricOf(type) ==
    CASE type = "stability" -> "error_rate"
      [] type = "performance" -> "request_latency"
      [] type = "cost" -> "compute_cost"
      [] OTHER -> "cpu_utilization"

\* values in hundredths (deviation_percentage in tenths), after the anomaly of
\* test_analysis_local.py
Anomalies ==
    {[anomaly_id |-> "test-001", detected_at |-> d, metric_name |-> MetricOf(t),
      anomaly_type |-> t, severity |-> sv, current_value |-> 850,
      baseline_value |-> 252, deviation_sigma |-> 412,
      deviation_percentage |-> 2373, confidence |-> 95, affected_resources |-> 0] :
        d \in DetectedAtChoices, t \in AnomalyTypes, sv \in Severities}

\* rows the migrations table may hold, relative to the detection time d
users_1h(d) ==
    Migration("users_1h", Type(user_migration), d - SecondsPerHour, Num(5), NoReqs)
feature_7h(d) ==
    Migration("feature_7h", Type(New_Feature), d - 7 * SecondsPerHour, Absent, NoReqs)
null_users_3h(d) ==
    Migration("null_users_3h", Type(user_migration), d - 3 * SecondsPerHour, Null, NoReqs)
users_30h(d) ==
    Migration("users_30h", Type(user_migration), d - 30 * SecondsPerHour, Num(5), NoReqs)

\* contents of the migrations table: empty, one row of each kind, two rows
Tables ==
    UNION {{{}, {users_1h(d)}, {feature_7h(d)}, {null_users_3h(d)}, {users_30h(d)},
            {feature_7h(d), users_1h(d)}} : d \in DetectedAtChoices}

\* ---- answers to the root-cause prompt ----
AIMigrationAnalysis(likely) ==
    [likely_cause |-> likely, related_migrations |-> <<>>,
     impact_summary |-> Summary("ai_text", 0, <<>>),
     has_impact_factors |-> TRUE, impact_factors |-> <<>>]

GoodRootCauseJson ==
    [answer |-> "good", top |-> "object",
     primary_cause |-> JStr(<<"Deployment raised the error rate">>),
     contributing_factors |-> JList(<<"Factor 1", "Factor 2", "Factor 3", "Factor 4">>),
     confidence |-> JNum(85),
     evidence |-> JList(<<"Observation 1", "Observation 2">>),
     correlation_data |-> CD("map", FALSE, TRUE, NoMA)]

RootCauseJsons ==
    {GoodRootCauseJson,
     [GoodRootCauseJson EXCEPT !.confidence = JNum(100)],
     [GoodRootCauseJson EXCEPT !.confidence = JNum(0)],
     [GoodRootCauseJson EXCEPT !.correlation_data = JMissing_CD],
     [GoodRootCauseJson EXCEPT !.correlation_data =
         CD("map", TRUE, TRUE, MAMap(AIMigrationAnalysis(TRUE)))],
     [GoodRootCauseJson EXCEPT !.correlation_data =
         CD("map", TRUE, FALSE, MAMap(AIMigrationAnalysis(FALSE)))]}
    \cup {[GoodRootCauseJson EXCEPT !.answer = "not_object", !.top = t] :
             t \in {"array", "string", "null"}}
    \cup {[GoodRootCauseJson EXCEPT !.answer = "missing_key", !.primary_cause = JMissing],
          [GoodRootCauseJson EXCEPT !.answer = "missing_key",
                                    !.contributing_factors = JMissing],
          [GoodRootCauseJson EXCEPT !.answer = "missing_key", !.confidence = JMissing],
          [GoodRootCauseJson EXCEPT !.answer = "missing_key", !.evidence = JMissing]}
    \cup {[GoodRootCauseJson EXCEPT !.answer = "out_of_range", !.confidence = JNum(150)],
          [GoodRootCauseJson EXCEPT !.answer = "out_of_range", !.confidence = JNum(-20)],
          [GoodRootCauseJson EXCEPT !.answer = "out_of_range",
                                    !.contributing_factors = JList(<<>>)]}
    \cup {[GoodRootCauseJson EXCEPT !.answer = "odd_type", !.primary_cause = JNull],
          [GoodRootCauseJson EXCEPT !.answer = "odd_type", !.primary_cause = JNum(7)],
          [GoodRootCauseJson EXCEPT !.answer = "odd_type",
                                    !.contributing_factors = JStr(<<"l", "o", "a", "d">>)],
          [GoodRootCauseJson EXCEPT !.answer = "odd_type",
                                    !.contributing_factors = JNum(3)],
          [GoodRootCauseJson EXCEPT !.answer = "odd_type",
                                    !.contributing_factors = JNull],
          [GoodRootCauseJson EXCEPT !.answer = "odd_type", !.confidence = JStr(<<"high">>)],
          [GoodRootCauseJson EXCEPT !.answer = "odd_type", !.confidence = JNull],
          [GoodRootCauseJson EXCEPT !.answer = "odd_type", !.evidence = JNum(3)],
          [GoodRootCauseJson EXCEPT !.answer = "odd_type", !.evidence = JMap(<<"k">>)],
          [GoodRootCauseJson EXCEPT !.answer = "odd_type",
              !.correlation_data = CD("str", FALSE, FALSE, NoMA)],
          [GoodRootCauseJson EXCEPT !.answer = "odd_type",
              !.correlation_data = CD("str", TRUE, FALSE, NoMA)],
          [GoodRootCauseJson EXCEPT !.answer = "odd_type",
              !.correlation_data = CD("list", TRUE, FALSE, NoMA)],
          [GoodRootCauseJson EXCEPT !.answer = "odd_type",
              !.correlation_data = CD("null", FALSE, FALSE, NoMA)],
          [GoodRootCauseJson EXCEPT !.answer = "odd_type",
              !.correlation_data = CD("map", TRUE, FALSE, [t |-> "null", val |-> NoResult])],
          [GoodRootCauseJson EXCEPT !.answer = "odd_type",
              !.correlation_data = CD("map", TRUE, FALSE, [t |-> "str", val |-> NoResult])]}

RootCauseResponses == Responses(RootCauseJsons, GoodRootCauseJson)

\* ---- answers to the recommendation prompt ----
RecData(priority, action, cost_impact) ==
    [t |-> "map", priority |-> priority, action |-> action,
     rationale |-> JStr(<<"Why this addresses the root cause">>),
     expected_impact |-> JStr(<<"What will improve">>),
     implementation_steps |-> JList(<<"Step 1", "Step 2", "Step 3", "Step 4">>),
     estimated_effort |-> JStr(<<"15 minutes">>),
     risk_level |-> JStr(<<"medium">>), cost_impact |-> cost_impact]

FullRec == RecData(JStr(<<"high">>), JStr(<<"Roll back the deployment">>),
                   JStr(<<"Save $X/month with no ", "performance", " impact">>))
\* only the mandatory keys, and a lower priority
BareRec ==
    [RecData(JStr(<<"low">>), JStr(<<"Add an alert">>), JMissing) EXCEPT
        !.implementation_steps = JMissing, !.estimated_effort = JMissing,
        !.risk_level = JMissing]

WellTypedRecs == {FullRec, BareRec}
OddTypeRecs ==
    {RecData(JNum(1), JStr(<<"Roll back the deployment">>), JNull),
     RecData(JStr(<<"high">>), JStr(<<"Roll back the deployment">>), JNum(40))}
IncompleteRecs ==
    {[FullRec EXCEPT !.priority = JMissing], [FullRec EXCEPT !.action = JMissing],
     [FullRec EXCEPT !.rationale = JMissing],
     [FullRec EXCEPT !.expected_impact = JMissing]}
NotAnObject == [FullRec EXCEPT !.t = "str"]

\* the lists of one answer: well-formed lists, and lists with one entry of an
\* odd type or without a mandatory key, last or first
RecLists ==
    SeqsUpTo(WellTypedRecs, MaxAIRecs)
    \cup {Append(prefix, x) : prefix \in SeqsUpTo({FullRec}, MaxAIRecs - 1),
                              x \in OddTypeRecs \cup IncompleteRecs}
    \cup {<<x>> \o suffix : suffix \in SeqsUpTo({FullRec}, MaxAIRecs - 1),
                            x \in OddTypeRecs \cup IncompleteRecs}

HasOneOf(items, S) == \E i \in DOMAIN items : items[i] \in S

RecsJson(answer, top, t, items) ==
    [answer |-> answer, top |-> top, recommendations |-> [t |-> t, items |-> items]]

RecommendationJsons ==
    {RecsJson(IF HasOneOf(items, IncompleteRecs)
              THEN (IF Head(items) \in IncompleteRecs
                    THEN "missing_key" ELSE "missing_key_after_complete")
              ELSE IF HasOneOf(items, OddTypeRecs) THEN "odd_type"
              ELSE "good",
              "object", "list", items) : items \in RecLists}
    \cup {RecsJson("not_object", "array", "missing", <<>>),
          RecsJson("missing_key", "object", "missing", <<>>),
          RecsJson("odd_type", "object", "null", <<>>),
          RecsJson("odd_type", "object", "str", <<NotAnObject>>)}

GoodRecommendationsJson == RecsJson("good", "object", "list", <<FullRec, BareRec>>)

RecommendationResponses == Responses(RecommendationJsons, GoodRecommendationsJson)

----------------------------------------------------------------------------
\* Spec: analyze_anomaly, one step of the pipeline per action

Init ==
    /\ ai_available \in BOOLEAN
    /\ migrations_table \in Tables
    /\ PipelineIdle
    /\ c_detected_at = 0
    /\ c_migrations = <<>>
    /\ c_args0 = [detected_at |-> 0, migrations |-> <<>>]
    /\ c_pc = "off"
    /\ c_idx = 0
    /\ c_related = <<>>
    /\ c_factors = <<>>
    /\ c_result = NoResult
    /\ c_first = NoResult
    /\ c_calls = 0
    /\ BaselineOff
    /\ SaveOff
    /\ ThreadsOff

\* analyze_anomaly is called with an anomaly
BeginAnalysis ==
    /\ pc = "idle"
    /\ \E an \in Anomalies : anomaly' = an
    /\ pc' = "context"
    /\ raised_at' = ""
    /\ ctx' = NoContext
    /\ root' = NoRootCause
    /\ recommendations' = <<>>
    /\ analysis' = NoAnalysis
    /\ rc_arm' = ""
    /\ rec_arm' = ""
    /\ rc_answer' = ""
    /\ rec_answer' = ""
    /\ writes' = 0
    /\ row' = NoRow
    /\ analysis_start' = clock
    /\ clock' = clock + 1
    /\ duration_ms' = NoDuration
    /\ rc_calls' = 0
    /\ rec_calls' = 0
    /\ UNCHANGED <<ai_available, migrations_table, c_vars, b_vars, s_vars, t_vars>>

\* context = self._gather_context(anomaly)
GatherContext ==
    /\ pc = "context"
    /\ \E query_fails \in BOOLEAN :
          ctx' = gather_context(anomaly, migrations_table, query_fails)
    /\ pc' = "root_cause"
    /\ clock' = clock + 1
    /\ UNCHANGED <<ai_available, migrations_table, raised_at, anomaly, root,
                   recommendations, analysis, rc_arm, rec_arm, rc_answer, rec_answer,
                   writes, row, analysis_start, duration_ms, rc_calls, rec_calls,
                   c_vars, b_vars, s_vars, t_vars>>

\* root_cause = self._analyze_root_cause(anomaly, context)
AnalyzeRootCause_disables_arm ==
    /\ pc = "root_cause"
    /\ \E response \in
            (IF ai_available /\ ~root_cause_prompt_raises(ctx)
             THEN RootCauseResponses ELSE {NotCalled(GoodRootCauseJson)}) :
          LET r == analyze_root_cause(ai_available, response, anomaly, ctx)
          IN  /\ rc_answer' = response.answer
              /\ rc_arm' = r.arm
              /\ root' = r.root_cause
              /\ pc' = IF r.raised THEN "raised" ELSE "recommendations"
              /\ raised_at' = IF r.raised THEN "root_cause" ELSE ""
              /\ ai_available' = (ai_available /\ ~r.ai_failed)
              /\ rc_calls' = root_cause_capability_calls(ai_available, response, ctx)
    /\ clock' = clock + 1
    /\ UNCHANGED <<migrations_table, anomaly, ctx, recommendations,
                   analysis, rec_arm, rec_answer, writes, row, analysis_start,
                   duration_ms, rec_calls, c_vars, b_vars, s_vars, t_vars>>
AnalyzeRootCause ==
    /\ pc = "root_cause"
    /\ \E response \in
            (IF ai_available /\ ~root_cause_prompt_raises(ctx)
             THEN RootCauseResponses ELSE {NotCalled(GoodRootCauseJson)}) :
          LET r == analyze_root_cause(ai_available, response, anomaly, ctx)
          IN  /\ rc_answer' = response.answer
              /\ rc_arm' = r.arm
              /\ root' = r.root_cause
              /\ pc' = IF r.raised THEN "raised" ELSE "recommendations"
              /\ raised_at' = IF r.raised THEN "root_cause" ELSE ""
              /\ rc_calls' = root_cause_capability_calls(ai_available, response, ctx)
    /\ clock' = clock + 1
    /\ UNCHANGED <<ai_available, migrations_table, anomaly, ctx, recommendations,
                   analysis, rec_arm, rec_answer, writes, row, analysis_start,
                   duration_ms, rec_calls, c_vars, b_vars, s_vars, t_vars>>

\* recommendations = self._generate_recommendations(anomaly, root_cause, context)
GenerateRecommendations ==
    /\ pc = "recommendations"
    /\ \E response \in
            (IF ai_available /\ ~recommendation_prompt_raises(root)
             THEN RecommendationResponses ELSE {NotCalled(GoodRecommendationsJson)}) :
          LET r == generate_recommendations(ai_available, response, anomaly, root)
          IN  /\ rec_answer' = response.answer
              /\ rec_arm' = r.arm
              /\ recommendations' = r.recommendations
              /\ pc' = IF r.raised THEN "raised" ELSE "summary"
              /\ raised_at' = IF r.raised THEN "recommendations" ELSE ""
              /\ rec_calls' = recommendation_capability_calls(ai_available, response,
                                                              root)
    /\ clock' = clock + 1
    /\ UNCHANGED <<ai_available, migrations_table, anomaly, ctx, root, analysis,
                   rc_arm, rc_answer, writes, row, analysis_start, duration_ms,
                   rc_calls, c_vars, b_vars, s_vars, t_vars>>

\* summary = self._generate_human_readable_summary(...) and the AnomalyAnalysis;
\* an exception of the summary leaves through `except Exception: raise`
Compose ==
    /\ pc = "summary"
    /\ clock' = clock + 1
    /\ IF summary_raises(anomaly, root, recommendations)
       THEN /\ pc' = "raised"
            /\ raised_at' = "summary"
            /\ UNCHANGED <<analysis, duration_ms>>
       ELSE /\ pc' = "save"
            /\ raised_at' = ""
            /\ duration_ms' = clock' - analysis_start
            /\ analysis' = AnomalyAnalysis(anomaly, root, recommendations,
                               clock' - analysis_start, ai_model_used(ai_available),
                               ctx.historical_summary, ctx.trend_analysis,
                               predict_impact(anomaly),
                               generate_human_readable_summary(anomaly, root,
                                                               recommendations))
    /\ UNCHANGED <<ai_available, migrations_table, anomaly, ctx, root,
                   recommendations, rc_arm, rec_arm, rc_answer, rec_answer, writes,
                   row, analysis_start, rc_calls, rec_calls, c_vars, b_vars, s_vars, t_vars>>

\* self._save_analysis(analysis); return analysis.  The insert stores the row,
\* reports errors, or raises; none of the three reaches the caller.
SaveAnalysis_retries ==
    /\ pc = "save"
    /\ \E outcome \in {"stored", "errors", "raises"} :
          /\ writes' = writes + 1
          /\ row' = IF outcome = "stored" THEN analysis_row(analysis) ELSE row
    /\ pc' = IF row' # NoRow \/ writes >= 1 THEN "returned" ELSE "save"
    /\ clock' = clock + 1
    /\ UNCHANGED <<ai_available, migrations_table, raised_at, anomaly, ctx, root,
                   recommendations, analysis, rc_arm, rec_arm, rc_answer, rec_answer,
                   analysis_start, duration_ms, rc_calls, rec_calls, c_vars, b_vars, s_vars, t_vars>>
SaveAnalysis_propagates ==
    /\ pc = "save"
    /\ \E outcome \in {"stored", "errors", "raises"} :
          /\ writes' = writes + 1
          /\ row' = IF outcome = "stored" THEN analysis_row(analysis) ELSE row
          /\ pc' = IF outcome = "raises" THEN "raised" ELSE "returned"
          /\ raised_at' = IF outcome = "raises" THEN "save" ELSE raised_at
    /\ clock' = clock + 1
    /\ UNCHANGED <<ai_available, migrations_table, anomaly, ctx, root,
                   recommendations, analysis, rc_arm, rec_arm, rc_answer, rec_answer,
                   analysis_start, duration_ms, rc_calls, rec_calls, c_vars, b_vars, s_vars, t_vars>>
SaveAnalysis ==
    /\ pc = "save"
    /\ \E outcome \in {"stored", "errors", "raises"} :
          /\ writes' = writes + 1
          /\ row' = IF outcome = "stored" THEN analysis_row(analysis) ELSE row
    /\ pc' = "returned"
    /\ clock' = clock + 1
    /\ UNCHANGED <<ai_available, migrations_table, raised_at, anomaly, ctx, root,
                   recommendations, analysis, rc_arm, rec_arm, rc_answer, rec_answer,
                   analysis_start, duration_ms, rc_calls, rec_calls, c_vars, b_vars, s_vars, t_vars>>

\* the call has returned or raised: its locals are gone, the agent is as
\* __init__ left it and can be called again
FinishCall ==
    /\ pc \in {"returned", "raised"}
    /\ pc' = "idle"
    /\ raised_at' = ""
    /\ anomaly' = NoAnomaly
    /\ ctx' = NoContext
    /\ root' = NoRootCause
    /\ recommendations' = <<>>
    /\ analysis' = NoAnalysis
    /\ rc_arm' = ""
    /\ rec_arm' = ""
    /\ rc_answer' = ""
    /\ rec_answer' = ""
    /\ writes' = 0
    /\ row' = NoRow
    /\ clock' = 0
    /\ analysis_start' = 0
    /\ duration_ms' = NoDuration
    /\ rc_calls' = 0
    /\ rec_calls' = 0
    /\ UNCHANGED <<ai_available, migrations_table, c_vars, b_vars, s_vars, t_vars>>

Next ==
    \/ BeginAnalysis
    \/ GatherContext
    \/ AnalyzeRootCause
    \/ GenerateRecommendations
    \/ Compose
    \/ SaveAnalysis
    \/ FinishCall

Spec == Init /\ [][Next]_vars

----------------------------------------------------------------------------
\* SpecBaseline: operations of the baseline engine on a configuration, a
\* calculator, an optimizer built from the configuration and a store

InitBaseline ==
    /\ b_config_use_ai \in BOOLEAN
    /\ b_config_threshold \in Thresholds
    /\ b_use_ai = b_config_use_ai
    /\ b_ai_available \in BOOLEAN
    /\ b_threshold = b_config_threshold
    /\ b_method \in ConfigMethods
    /\ b_store \in Stores
    /\ BaselineIdle
    /\ SaveOff
    /\ ThreadsOff
    /\ PipelineIdle
    /\ ai_available = TRUE
    /\ migrations_table = {}
    /\ c_detected_at = 0
    /\ c_migrations = <<>>
    /\ c_args0 = [detected_at |-> 0, migrations |-> <<>>]
    /\ c_pc = "off"
    /\ c_idx = 0
    /\ c_related = <<>>
    /\ c_factors = <<>>
    /\ c_result = NoResult
    /\ c_first = NoResult
    /\ c_calls = 0

\* the capability is called only by an optimizer that uses it and whose
\* __init__ found it available
CapabilityAnswers(use_ai, ai) ==
    IF use_ai /\ ai THEN OptimizerResponses ELSE {NoResponse}

\* AIBaselineOptimizer.analyze_metric(metric_name, data) on the optimizer at
\* hand: it decides with the use_ai and the threshold its __init__ read
AnalyzeMetric ==
    /\ b_pc = "ready"
    /\ \E d \in SeriesCatalog, response \in CapabilityAnswers(b_use_ai, b_ai_available) :
          /\ b_data' = d
          /\ b_response' = response
          /\ b_recommendation' =
                analyze_metric(b_use_ai, b_ai_available, b_threshold, response, d)
    /\ b_op' = "analyze_metric"
    /\ b_pc' = "done"
    /\ UNCHANGED <<b_config_use_ai, b_config_threshold, b_use_ai, b_ai_available,
                   b_threshold, b_method, b_store, b_request, b_outcome, c_vars,
                   p_vars, s_vars, t_vars>>

\* BaselineCalculator.calculate_baseline(..., lookback_days, calculation_method)
CalculateBaseline ==
    /\ b_pc = "ready"
    /\ \E method \in MethodArguments, lookback \in LookbackArguments :
          /\ b_request' = method
          /\ b_outcome' = calculate_baseline(b_store, b_method, "error_rate",
                                             lookback, method)
    /\ b_op' = "calculate_baseline"
    /\ b_pc' = "done"
    /\ UNCHANGED <<b_config_use_ai, b_config_threshold, b_use_ai, b_ai_available,
                   b_threshold, b_method, b_store, b_data, b_response,
                   b_recommendation, c_vars, p_vars, s_vars, t_vars>>

\* calculate_baseline_with_ai reaches optimizer.analyze_metric: the sample
\* query returned rows and the analysis of the sample did not raise
reaches_analysis(store, analysis_fails) ==
    store.sample = "ok" /\ sample_of(store).sample_count > 0 /\ ~analysis_fails

\* BaselineCalculator.calculate_baseline_with_ai(...): past the sample query it
\* builds an optimizer of its own, AIBaselineOptimizer(self.config), which
\* reads the configuration as it is now and whose ai_available is what its own
\* vertexai.init gives (ai); the optimizer at hand is not touched.  The
\* capability is called only when that optimizer's analyze_metric is reached
\* and uses it.
CalculateBaselineWithAI ==
    /\ b_pc = "ready"
    /\ \E ai \in BOOLEAN, analysis_fails \in BOOLEAN :
       \E response \in IF reaches_analysis(b_store, analysis_fails)
                       THEN CapabilityAnswers(b_config_use_ai, ai)
                       ELSE {NoResponse} :
          /\ b_response' = response
          /\ b_outcome' = calculate_baseline_with_ai(b_store, b_method,
                              b_config_use_ai, ai, b_config_threshold,
                              response, analysis_fails, "error_rate")
          /\ b_recommendation' =
                IF reaches_analysis(b_store, analysis_fails)
                THEN analyze_metric(b_config_use_ai, ai, b_config_threshold,
                                    response, sample_of(b_store))
                ELSE b_recommendation
    /\ b_op' = "calculate_baseline_with_ai"
    /\ b_pc' = "done"
    /\ UNCHANGED <<b_config_use_ai, b_config_threshold, b_use_ai, b_ai_available,
                   b_threshold, b_method, b_store, b_data, b_request, c_vars, p_vars,
                   s_vars, t_vars>>

\* Config.update('baseline.use_ai_optimization', v), Config.update(
\* 'baseline.ai_confidence_threshold', v) and Config.reload(): only the
\* configuration changes.  An optimizer that exists keeps the use_ai and the
\* threshold it read, and the calculator the calculation_method and the
\* lookback_days it read
UpdateOptimizerConfig ==
    /\ b_pc = "ready"
    /\ \E use_ai \in BOOLEAN, threshold \in Thresholds :
          /\ <<use_ai, threshold>> # <<b_config_use_ai, b_config_threshold>>
          /\ b_config_use_ai' = use_ai
          /\ b_config_threshold' = threshold
    /\ UNCHANGED <<b_pc, b_op, b_use_ai, b_ai_available, b_threshold, b_method,
                   b_store, b_request, b_data, b_response, b_recommendation,
                   b_outcome, c_vars, p_vars, s_vars, t_vars>>

\* AIBaselineOptimizer(config): a new optimizer takes the place of the one at
\* hand; its __init__ reads use_ai and the threshold from the configuration
\* and assigns ai_available by whether its vertexai.init raises
ConstructOptimizer ==
    /\ b_pc = "ready"
    /\ b_use_ai' = b_config_use_ai
    /\ b_threshold' = b_config_threshold
    /\ b_ai_available' \in BOOLEAN
    /\ UNCHANGED <<b_pc, b_op, b_config_use_ai, b_config_threshold, b_method,
                   b_store, b_request, b_data, b_response, b_recommendation,
                   b_outcome, c_vars, p_vars, s_vars, t_vars>>

NextBaseline ==
    \/ UpdateOptimizerConfig
    \/ ConstructOptimizer
    \/ AnalyzeMetric
    \/ CalculateBaseline
    \/ CalculateBaselineWithAI

SpecBaseline == InitBaseline /\ [][NextBaseline]_vars

----------------------------------------------------------------------------
\* save_baseline and calculate_and_save_all_baselines (SpecBatch)

MaxMetrics == 2
MaxOps == 3

\* an entry of baseline.metrics; enabled is "true", "false" or "absent"
Metric(name, enabled) == [name |-> name, enabled |-> enabled]

\* metric.get('enabled', True)
metric_enabled(metric) == metric.enabled # "false"

\* the metrics used when none is configured
DefaultMetrics ==
    <<Metric("error_rate", "true"), Metric("cpu_utilization", "true"),
      Metric("memory_consumption", "true"), Metric("execution_time", "true")>>

\* metrics = self.config.baseline_metrics; if not metrics: the defaults
metrics_of(configured) == IF configured = <<>> THEN DefaultMetrics ELSE configured

\* what insert_rows_json does with the row
InsertOutcomes == {"ok", "errors", "raises"}

\* save_baseline: the row is in the table when the insert reports no error;
\* reported errors and exceptions are raised to the caller
save_baseline(table, baseline, insert) ==
    [raised |-> insert # "ok",
     table |-> IF insert = "ok" THEN Append(table, baseline) ELSE table]

\* what the loop did for one metric
Step(metric, calculated, save_called, insert) ==
    [metric |-> metric, calculated |-> calculated, save_called |-> save_called,
     insert |-> insert]

\* one iteration of `for metric in metrics`, with the baseline appended before
\* it is saved
batch_step_append_before_save(metric, store, config_method, insert, acc) ==
    IF ~metric_enabled(metric)
    THEN [acc EXCEPT !.log = Append(@, Step(metric, FALSE, FALSE, "none"))]
    ELSE LET r == calculate_baseline(store, config_method, metric.name, JNull, "")
         IN  IF r.raised
             THEN [acc EXCEPT !.log = Append(@, Step(metric, TRUE, FALSE, "none"))]
             ELSE LET saved == save_baseline(acc.table, r.baseline, insert)
                  IN  [acc EXCEPT !.table = saved.table,
                                  !.passed = Append(@, r.baseline),
                                  !.saved = IF saved.raised THEN @
                                            ELSE Append(@, r.baseline),
                                  !.baselines = Append(@, r.baseline),
                                  !.log = Append(@, Step(metric, TRUE, TRUE, insert))]

\* one iteration of `for metric in metrics`: acc holds the local list
\* baselines, the table, the calls made and whether the loop was left by an
\* exception
batch_step(metric, store, config_method, insert, acc) ==
    IF ~metric_enabled(metric)
    THEN [acc EXCEPT !.log = Append(@, Step(metric, FALSE, FALSE, "none"))]
    ELSE LET r == calculate_baseline(store, config_method, metric.name, JNull, "")
         IN  IF r.raised
             THEN [acc EXCEPT !.log = Append(@, Step(metric, TRUE, FALSE, "none"))]
             ELSE LET saved == save_baseline(acc.table, r.baseline, insert)
                  IN  [acc EXCEPT !.table = saved.table,
                                  !.passed = Append(@, r.baseline),
                                  !.saved = IF saved.raised THEN @
                                            ELSE Append(@, r.baseline),
                                  !.baselines = IF saved.raised THEN @
                                                ELSE Append(@, r.baseline),
                                  !.log = Append(@, Step(metric, TRUE, TRUE, insert))]

\* ---- inputs ----
MetricNames == {"error_rate", "cpu_utilization", "memory_consumption", "execution_time"}

ConfiguredEntries ==
    {Metric("error_rate", e) : e \in {"true", "false", "absent"}}
    \cup {Metric("cpu_utilization", "true")}

\* the metrics of the direct calls
DirectMetrics == {"error_rate", "cpu_utilization"}

SteadyStore == Store("ok", "ok", SteadyRow, column_sample(SteadyRow, 0))

\* what the store holds for each metric's column: statistics everywhere; no
\* sample of the error rate; a failing query for the CPU column and no row for
\* the memory column
MetricStores ==
    {[n \in MetricNames |-> SteadyStore],
     [n \in MetricNames |->
        IF n = "error_rate" THEN Store("ok", "ok", EmptyRow, column_sample(EmptyRow, 0)) ELSE SteadyStore],
     [n \in MetricNames |->
        IF n = "cpu_utilization" THEN Store("error", "ok", SteadyRow, column_sample(SteadyRow, 0))
        ELSE IF n = "memory_consumption" THEN Store("no_row", "ok", SteadyRow, column_sample(SteadyRow, 0))
        ELSE SteadyStore]}

\* no analysis and no correlation is modelled
CorrelateOff ==
    /\ c_detected_at = 0
    /\ c_migrations = <<>>
    /\ c_args0 = [detected_at |-> 0, migrations |-> <<>>]
    /\ c_pc = "off"
    /\ c_idx = 0
    /\ c_related = <<>>
    /\ c_factors = <<>>
    /\ c_result = NoResult
    /\ c_first = NoResult
    /\ c_calls = 0

InitBatch ==
    /\ s_pc = "ready"
    /\ s_metrics \in SeqsUpTo(ConfiguredEntries, MaxMetrics)
    /\ s_stores \in MetricStores
    /\ s_table = <<>>
    /\ s_passed = <<>>
    /\ s_saved = <<>>
    /\ s_held = NoBaseline
    /\ s_ops = 0
    /\ s_idx = 0
    /\ s_baselines = <<>>
    /\ s_log = <<>>
    /\ BaselineOff
    /\ PipelineIdle
    /\ ai_available = TRUE
    /\ migrations_table = {}
    /\ CorrelateOff
    /\ ThreadsOff

\* a direct calculate_baseline call that also stores what it calculated
CalculateCall_saves ==
    /\ s_pc = "ready"
    /\ s_ops < MaxOps
    /\ \E name \in DirectMetrics, method \in MethodArguments,
          lookback \in LookbackArguments :
          LET r == calculate_baseline(s_stores[name], b_method, name, lookback, method)
          IN  /\ s_held' = IF r.raised THEN s_held ELSE r.baseline
              /\ s_table' = IF r.raised THEN s_table ELSE Append(s_table, r.baseline)
    /\ s_ops' = s_ops + 1
    /\ UNCHANGED <<s_pc, s_metrics, s_stores, s_passed, s_saved, s_idx,
                   s_baselines, s_log, c_vars, p_vars, b_vars, t_vars>>

\* a direct calculate_baseline call, as the local test makes it: the caller
\* keeps the baseline it returned
CalculateCall ==
    /\ s_pc = "ready"
    /\ s_ops < MaxOps
    /\ \E name \in DirectMetrics, method \in MethodArguments,
          lookback \in LookbackArguments :
          LET r == calculate_baseline(s_stores[name], b_method, name, lookback, method)
          IN  s_held' = IF r.raised THEN s_held ELSE r.baseline
    /\ s_ops' = s_ops + 1
    /\ UNCHANGED <<s_pc, s_metrics, s_stores, s_table, s_passed, s_saved, s_idx,
                   s_baselines, s_log, c_vars, p_vars, b_vars, t_vars>>

\* a direct save_baseline call with a baseline calculated before
SaveCall ==
    /\ s_pc = "ready"
    /\ s_ops < MaxOps
    /\ s_held # NoBaseline
    /\ \E insert \in InsertOutcomes :
          LET saved == save_baseline(s_table, s_held, insert)
          IN  /\ s_table' = saved.table
              /\ s_saved' = IF saved.raised THEN s_saved ELSE Append(s_saved, s_held)
    /\ s_passed' = Append(s_passed, s_held)
    /\ s_ops' = s_ops + 1
    /\ UNCHANGED <<s_pc, s_metrics, s_stores, s_held, s_idx, s_baselines, s_log,
                   c_vars, p_vars, b_vars, t_vars>>

\* Config.update('baseline.metrics', value) or Config.reload() between two
\* calls: the next batch reads the new list
UpdateMetrics ==
    /\ s_pc = "ready"
    /\ \E metrics \in SeqsUpTo(ConfiguredEntries, MaxMetrics) :
          /\ metrics # s_metrics
          /\ s_metrics' = metrics
    /\ UNCHANGED <<s_pc, s_stores, s_table, s_passed, s_saved, s_held, s_ops, s_idx,
                   s_baselines, s_log, c_vars, p_vars, b_vars, t_vars>>

\* calculate_and_save_all_baselines is called
BeginBatch ==
    /\ s_pc = "ready"
    /\ s_pc' = "batch"
    /\ s_idx' = 1
    /\ s_baselines' = <<>>
    /\ s_log' = <<>>
    /\ UNCHANGED <<s_metrics, s_stores, s_table, s_passed, s_saved, s_held, s_ops,
                   c_vars, p_vars, b_vars, t_vars>>

\* one iteration of the loop
BatchStep ==
    /\ s_pc = "batch"
    /\ s_idx <= Len(metrics_of(s_metrics))
    /\ \E insert \in InsertOutcomes :
          LET metric == metrics_of(s_metrics)[s_idx]
              acc == batch_step(metric, s_stores[metric.name], b_method, insert,
                                [baselines |-> s_baselines, table |-> s_table,
                                 passed |-> s_passed, saved |-> s_saved,
                                 log |-> s_log])
          IN  /\ s_baselines' = acc.baselines
              /\ s_table' = acc.table
              /\ s_passed' = acc.passed
              /\ s_saved' = acc.saved
              /\ s_log' = acc.log
    /\ s_idx' = s_idx + 1
    /\ UNCHANGED <<s_pc, s_metrics, s_stores, s_held, s_ops, c_vars, p_vars, b_vars, t_vars>>

\* return baselines
BatchReturn ==
    /\ s_pc = "batch"
    /\ s_idx > Len(metrics_of(s_metrics))
    /\ s_pc' = "batch_done"
    /\ UNCHANGED <<s_metrics, s_stores, s_table, s_passed, s_saved, s_held, s_ops,
                   s_idx, s_baselines, s_log, c_vars, p_vars, b_vars, t_vars>>

NextBatch ==
    \/ UpdateMetrics
    \/ CalculateCall
    \/ SaveCall
    \/ BeginBatch
    \/ BatchStep
    \/ BatchReturn

SpecBatch == InitBatch /\ [][NextBatch]_vars

----------------------------------------------------------------------------
\* Two analyze_anomaly calls on one agent, each in its own thread
\* (SpecConcurrent)

Threads == {1, 2}

\* the locals of a call: its argument, what the environment answered to it,
\* and the values of its local variables
Call(pc_, an, query_fails, rc_response, rec_response, elapsed, context, root_cause, recs, result) ==
    [pc |-> pc_, anomaly |-> an, query_fails |-> query_fails,
     rc_response |-> rc_response, rec_response |-> rec_response,
     elapsed |-> elapsed, context |-> context, root_cause |-> root_cause,
     recommendations |-> recs, analysis |-> result]

\* a call that has just entered analyze_anomaly
EnteredCall(an) ==
    Call("context", an, FALSE, NotCalled(GoodRootCauseJson),
         NotCalled(GoodRecommendationsJson), 0, NoContext, NoRootCause, <<>>,
         NoAnalysis)

\* analyze_anomaly run alone on an agent whose __init__ set ai_available to ai:
\* the four steps in sequence, given what the environment answers to this call
analyze_anomaly(ai, table, an, query_fails, rc_response, rec_response, elapsed) ==
    LET context == gather_context(an, table, query_fails)
        r == analyze_root_cause(ai, rc_response, an, context)
        g == generate_recommendations(ai, rec_response, an, r.root_cause)
    IN  IF r.raised \/ g.raised
           \/ summary_raises(an, r.root_cause, g.recommendations)
        THEN [raised |-> TRUE, analysis |-> NoAnalysis]
        ELSE [raised |-> FALSE,
              analysis |->
                 AnomalyAnalysis(an, r.root_cause, g.recommendations, elapsed,
                     ai_model_used(ai), context.historical_summary,
                     context.trend_analysis, predict_impact(an),
                     generate_human_readable_summary(an, r.root_cause,
                                                     g.recommendations))]

\* ---- inputs ----
\* the anomalies of the two calls differ in their id, and may differ in type
ConcurrentAnomalies(id) ==
    {[an EXCEPT !.anomaly_id = id] :
        an \in {a \in Anomalies : /\ a.severity = "high"
                                  /\ a.anomaly_type \in {"stability", "resource"}}}

ConcurrentTables == {{}} \cup {{users_1h(d)} : d \in DetectedAtChoices}

\* the capability raises, or answers the expected JSON
ConcurrentRootCauseResponses ==
    {r \in RootCauseResponses :
        \/ r.answer = "raises"
        \/ r.answer = "good" /\ r.tokens = <<"PAYLOAD">>}
ConcurrentRecommendationResponses ==
    {r \in RecommendationResponses :
        \/ r.answer = "raises"
        \/ r.answer = "good" /\ r.tokens = <<"PAYLOAD">>}

\* what time.time() measured between entry and the summary, in ms
ElapsedChoices == {40, 90}

InitConcurrent ==
    /\ ai_available \in BOOLEAN
    /\ t_constructed = ai_available
    /\ migrations_table \in ConcurrentTables
    /\ \E a1 \in ConcurrentAnomalies("test-001"),
          a2 \in ConcurrentAnomalies("test-002") :
          t_calls = <<EnteredCall(a1), EnteredCall(a2)>>
    /\ t_rows = {}
    /\ PipelineIdle
    /\ CorrelateOff
    /\ BaselineOff
    /\ SaveOff

\* context = self._gather_context(anomaly), in one of the threads
ThreadGatherContext ==
    \E t \in Threads :
        /\ t_calls[t].pc = "context"
        /\ \E query_fails \in BOOLEAN :
              t_calls' = [t_calls EXCEPT
                  ![t].query_fails = query_fails,
                  ![t].context = gather_context(t_calls[t].anomaly, migrations_table,
                                                query_fails),
                  ![t].pc = "root_cause"]
        /\ UNCHANGED <<t_rows, t_constructed, c_vars, p_vars, b_vars, s_vars>>

\* the resolver in one of the threads, switching the reasoning arm off for the
\* agent once it has failed
ThreadAnalyzeRootCause_disables_arm ==
    \E t \in Threads :
        /\ t_calls[t].pc = "root_cause"
        /\ \E response \in
                (IF ai_available /\ ~root_cause_prompt_raises(t_calls[t].context)
                 THEN ConcurrentRootCauseResponses
                 ELSE {NotCalled(GoodRootCauseJson)}) :
              LET r == analyze_root_cause(ai_available, response,
                                          t_calls[t].anomaly, t_calls[t].context)
              IN  /\ t_calls' = [t_calls EXCEPT
                        ![t].rc_response = response,
                        ![t].root_cause = r.root_cause,
                        ![t].pc = IF r.raised THEN "raised" ELSE "recommendations"]
                  /\ ai_available' = (ai_available /\ ~r.ai_failed)
        /\ UNCHANGED <<t_rows, t_constructed, c_vars, migrations_table, pc, raised_at,
                       anomaly, ctx, root, recommendations, analysis, rc_arm, rec_arm,
                       rc_answer, rec_answer, writes, row, clock, analysis_start,
                       duration_ms, rc_calls, rec_calls, b_vars, s_vars>>

\* root_cause = self._analyze_root_cause(anomaly, context), in one of the threads
ThreadAnalyzeRootCause ==
    \E t \in Threads :
        /\ t_calls[t].pc = "root_cause"
        /\ \E response \in
                (IF ai_available /\ ~root_cause_prompt_raises(t_calls[t].context)
                 THEN ConcurrentRootCauseResponses
                 ELSE {NotCalled(GoodRootCauseJson)}) :
              LET r == analyze_root_cause(ai_available, response,
                                          t_calls[t].anomaly, t_calls[t].context)
              IN  t_calls' = [t_calls EXCEPT
                      ![t].rc_response = response,
                      ![t].root_cause = r.root_cause,
                      ![t].pc = IF r.raised THEN "raised" ELSE "recommendations"]
        /\ UNCHANGED <<t_rows, t_constructed, c_vars, p_vars, b_vars, s_vars>>

\* recommendations = self._generate_recommendations(...), in one of the threads
ThreadGenerateRecommendations ==
    \E t \in Threads :
        /\ t_calls[t].pc = "recommendations"
        /\ \E response \in
                (IF ai_available /\ ~recommendation_prompt_raises(t_calls[t].root_cause)
                 THEN ConcurrentRecommendationResponses
                 ELSE {NotCalled(GoodRecommendationsJson)}) :
              LET g == generate_recommendations(ai_available, response,
                                                t_calls[t].anomaly,
                                                t_calls[t].root_cause)
              IN  t_calls' = [t_calls EXCEPT
                      ![t].rec_response = response,
                      ![t].recommendations = g.recommendations,
                      ![t].pc = IF g.raised THEN "raised" ELSE "summary"]
        /\ UNCHANGED <<t_rows, t_constructed, c_vars, p_vars, b_vars, s_vars>>

\* the summary and the AnomalyAnalysis, in one of the threads
ThreadCompose ==
    \E t \in Threads :
        /\ t_calls[t].pc = "summary"
        /\ \E elapsed \in ElapsedChoices :
              LET call == t_calls[t]
              IN  t_calls' = [t_calls EXCEPT ![t] =
                      IF summary_raises(call.anomaly, call.root_cause,
                                        call.recommendations)
                      THEN [call EXCEPT !.pc = "raised"]
                      ELSE [call EXCEPT
                              !.pc = "save",
                              !.elapsed = elapsed,
                              !.analysis =
                                 AnomalyAnalysis(call.anomaly, call.root_cause,
                                     call.recommendations, elapsed,
                                     ai_model_used(ai_available),
                                     call.context.historical_summary,
                                     call.context.trend_analysis,
                                     predict_impact(call.anomaly),
                                     generate_human_readable_summary(call.anomaly,
                                         call.root_cause, call.recommendations))]]
        /\ UNCHANGED <<t_rows, t_constructed, c_vars, p_vars, b_vars, s_vars>>

\* self._save_analysis(analysis); return analysis, in one of the threads
ThreadSaveAnalysis ==
    \E t \in Threads :
        /\ t_calls[t].pc = "save"
        /\ \E outcome \in {"stored", "raises"} :
              t_rows' = IF outcome = "stored"
                        THEN t_rows \cup {analysis_row(t_calls[t].analysis)}
                        ELSE t_rows
        /\ t_calls' = [t_calls EXCEPT ![t].pc = "returned"]
        /\ UNCHANGED <<t_constructed, c_vars, p_vars, b_vars, s_vars>>

NextConcurrent ==
    \/ ThreadGatherContext
    \/ ThreadAnalyzeRootCause
    \/ ThreadGenerateRecommendations
    \/ ThreadCompose
    \/ ThreadSaveAnalysis

SpecConcurrent == InitConcurrent /\ [][NextConcurrent]_vars

----------------------------------------------------------------------------
\* Properties of analyze_anomaly (Spec)

\* the resolver has come back to analyze_anomaly, or raised into it
ResolverDone == rc_answer # ""
GeneratorDone == rec_answer # ""

\* the answers that are failures of the reasoning arm of the resolver: the call
\* raises, the text is no JSON, the JSON is no object or lacks a required key,
\* and the prompt that cannot be built
RootCauseArmFailed ==
    /\ ai_available
    /\ rc_answer \in {"raises", "non_json", "json_in_prose", "not_object",
                      "missing_key", "not_called"}

RecommendationArmFailed ==
    /\ ai_available
    /\ rec_answer \in {"raises", "non_json", "json_in_prose", "not_object",
                       "missing_key", "missing_key_after_complete", "not_called"}

\* _gather_context has returned
ContextGathered == pc \notin {"idle", "context"}

\* a row of the window whose user-count delta or resource-requirement map is
\* missing or null was read from the store
ReadNullOptional ==
    \E i \in DOMAIN ctx.recent_changes :
        \E r \in migrations_table :
            /\ r.migration_id = ctx.recent_changes[i].migration_id
            /\ \/ r.user_count_change.k \in {"absent", "null"}
               \/ r.resource_requirements.k \in {"absent", "null"}

\* C11: for every change event whose user-count delta or resource-requirement
\* map is missing or null in the store, reading and correlating the events
\* completes without error, the field yields no note and no impact factor, and
\* the migration analysis and the trend are still gathered.
C11_AsStated ==
    (ContextGathered /\ ReadNullOptional) =>
        /\ ctx.has_migration_analysis
        /\ ctx.trend_analysis # ""

\* C1: whatever the reasoning capability does on the calls of one
\* analyze_anomaly (raises, non-JSON text, JSON without required keys, JSON
\* with fields of unexpected types), and for every anomaly type and severity,
\* analyze_anomaly does not raise.
C1_AsStated == pc # "raised"

\* the deterministic arm produced the root cause
DeterministicRootCause == ResolverDone /\ rc_arm = "rule" /\ raised_at # "root_cause"

TabledTypes == {"stability", "performance", "cost"}

\* the factors before the "recent changes" factor
TableFactors ==
    LET f == root.contributing_factors.items
    IN  IF ctx.recent_changes # <<>> THEN SubSeq(f, 1, Len(f) - 1) ELSE f

RecentChangesFactor ==
    LET f == root.contributing_factors.items
    IN  f # <<>> /\ f[Len(f)] = "Recent system changes or migrations"

\* C12 as stated: three table factors for every anomaly type, the other types
\* included.
C12_AsStated ==
    DeterministicRootCause =>
        Len(root.contributing_factors.items)
            = 3 + (IF ctx.recent_changes # <<>> THEN 1 ELSE 0)

\* C12: the deterministic root-cause arm returns the primary cause and the
\* contributing factors of the fixed table for the anomaly's type (three
\* factors for stability, performance and cost, one factor for any other
\* type), followed by one "recent changes/migrations" factor if and only if
\* the context holds change events of the recent window; its correlation data
\* is empty.
C12_DeterministicTable ==
    DeterministicRootCause =>
        /\ root.primary_cause = rule_primary_cause(anomaly)
        /\ anomaly.metric_name \in {root.primary_cause.items[i] :
                                       i \in DOMAIN root.primary_cause.items}
        /\ root.contributing_factors.t = "list"
        /\ TableFactors = rule_factors(anomaly)
        /\ Len(TableFactors) = IF anomaly.anomaly_type \in TabledTypes THEN 3 ELSE 1
        /\ RecentChangesFactor <=> ctx.recent_changes # <<>>
        /\ root.correlation_data = EmptyCD

C12_Witness ==
    /\ pc = "recommendations"
    /\ rc_arm = "rule"
    /\ anomaly.anomaly_type = "resource"
    /\ ctx.recent_changes # <<>>
    /\ Len(root.contributing_factors.items) = 2

\* the text of a value holds the part
Mentions(v, part) == v.t = "str" /\ \E i \in DOMAIN v.items : v.items[i] = part

\* C13: with no reasoning capability the generator returns exactly 2
\* recommendations for each of stability, performance and cost and an empty
\* list for every other type; for cost the first has priority "high" and the
\* cost_impact of the second states a savings percentage range.
C13_DeterministicCatalog ==
    (GeneratorDone /\ ~ai_available) =>
        /\ raised_at # "recommendations"
        /\ rec_arm = "rule"
        /\ Len(recommendations) = IF anomaly.anomaly_type \in TabledTypes THEN 2 ELSE 0
        /\ anomaly.anomaly_type = "cost" =>
              /\ recommendations[1].priority = JStr(<<"high">>)
              /\ Mentions(recommendations[2].cost_impact, "30-50%")

C13_Witness ==
    /\ pc = "summary"
    /\ ~ai_available
    /\ anomaly.anomaly_type = "cost"
    /\ Len(recommendations) = 2
    /\ Mentions(recommendations[2].cost_impact, "30-50%")

\* critical > high > medium > low
PriorityRank(p) ==
    CASE p = JStr(<<"critical">>) -> 4
      [] p = JStr(<<"high">>) -> 3
      [] p = JStr(<<"medium">>) -> 2
      [] p = JStr(<<"low">>) -> 1
      [] OTHER -> 0

NonIncreasingPriority(recs) ==
    \A i \in 1..(Len(recs) - 1) :
        PriorityRank(recs[i].priority) >= PriorityRank(recs[i + 1].priority)

\* C14: in every AnomalyAnalysis analyze_anomaly returns, whichever arm
\* produced the recommendations, the list is in non-increasing priority
\* (critical, high, medium, low) and is the sequence the generator emitted,
\* not reordered by the orchestrator or the serialization.
C14_AsStated ==
    pc \in {"save", "returned"} =>
        /\ analysis.recommendations = recommendations
        /\ NonIncreasingPriority(analysis.recommendations)
        /\ row # NoRow => row.recommendations = recommendations

\* C2: whenever the reasoning arm of _analyze_root_cause fails (call raises,
\* response not parseable, required key missing), the resolver raises nothing
\* and returns the deterministic arm's RootCause, with confidence exactly 0.75
\* and exactly 3 evidence strings.
C2_FallsBackToDeterministic ==
    (ResolverDone /\ RootCauseArmFailed) =>
        /\ raised_at # "root_cause"
        /\ rc_arm = "rule"
        /\ root = rule_based_root_cause(anomaly, ctx)
        /\ root.confidence = JNum(75)
        /\ root.evidence.t = "list"
        /\ Len(root.evidence.items) = 3

C2_Witness ==
    /\ pc = "recommendations"
    /\ ai_available
    /\ rc_answer = "missing_key"
    /\ ctx.recent_changes = <<>>
    /\ root.confidence = JNum(75)
    /\ Len(root.evidence.items) = 3

\* C3: whenever the reasoning arm of _generate_recommendations fails on the
\* call or on parsing, or a recommendation of the response lacks priority,
\* action, rationale or expected_impact, the generator raises nothing and
\* returns exactly the deterministic catalog of the anomaly's type, never a
\* partly built list of the reasoning arm.
C3_FallsBackToCatalog ==
    (GeneratorDone /\ RecommendationArmFailed) =>
        /\ raised_at # "recommendations"
        /\ rec_arm = "rule"
        /\ recommendations = rule_based_recommendations(anomaly)
        /\ \A i \in DOMAIN recommendations :
              recommendations[i] # build_recommendation(FullRec)

C3_Witness ==
    /\ pc = "summary"
    /\ ai_available
    /\ rec_answer = "missing_key_after_complete"
    /\ anomaly.anomaly_type = "cost"
    /\ Len(recommendations) = 2
    /\ recommendations = rule_based_recommendations(anomaly)

\* C4: every RootCause the resolver returns, from either arm and whatever the
\* capability answered, has confidence in [0,1] and at least one contributing
\* factor.
C4_AsStated ==
    (ResolverDone /\ raised_at # "root_cause") =>
        /\ root.confidence.t = "num"
        /\ 0 <= root.confidence.n
        /\ root.confidence.n <= 100
        /\ root.contributing_factors.t = "list"
        /\ root.contributing_factors.items # <<>>

\* C5: ai_model_used of every AnomalyAnalysis names the arm that produced its
\* root cause and recommendations: "rule-based" whenever the deterministic arm
\* produced them, also after a fallback, and the reasoning path only when the
\* reasoning arm produced them.
C5_AsStated ==
    pc \in {"save", "returned"} =>
        /\ (rc_arm = "rule" /\ rec_arm = "rule") => analysis.ai_model_used = "rule-based"
        /\ analysis.ai_model_used # "rule-based" => (rc_arm = "ai" \/ rec_arm = "ai")

\* the duration of the call is recorded: in the analysis or in the stored row
DurationRecorded ==
    \/ duration_ms # NoDuration
    \/ analysis.analysis_duration_ms # NoDuration
    \/ row.analysis_duration_ms # NoDuration

\* C20: every call of analyze_anomaly that has ended, by returning an analysis
\* or by raising, has recorded the duration of the pipeline.
C20_AsStated == pc \in {"returned", "raised"} => DurationRecorded

\* the analysis the pipeline assembled from the results of its four steps
ComposedAnalysis ==
    AnomalyAnalysis(anomaly, root, recommendations, duration_ms,
                    ai_model_used(ai_available), ctx.historical_summary,
                    ctx.trend_analysis, predict_impact(anomaly),
                    generate_human_readable_summary(anomaly, root, recommendations))

\* C21: within one analyze_anomaly call the analysis record is written at
\* most once, only after context gathering, root-cause resolution,
\* recommendation generation and narrative composition have completed, and
\* the stored row is the row of the assembled analysis; a call that raised has
\* written nothing.
C21_WriteOnceAfterCompute ==
    /\ writes <= 1
    /\ writes = 1 =>
          /\ pc = "returned"
          /\ ContextGathered /\ ResolverDone /\ GeneratorDone
          /\ analysis = ComposedAnalysis
    /\ row # NoRow => (writes = 1 /\ row = analysis_row(ComposedAnalysis))
    /\ pc = "raised" => (writes = 0 /\ row = NoRow)

C21_Witness ==
    /\ pc = "returned"
    /\ writes = 1
    /\ row # NoRow
    /\ row = analysis_row(analysis)
    /\ row.root_cause_primary = root.primary_cause

\* C22: when the write of the final record fails (the insert reports errors
\* or raises), analyze_anomaly raises nothing and returns the analysis it
\* assembled, the same as after a successful write.
C22_ReturnedDespiteFailedWrite ==
    /\ writes >= 1 => (pc = "returned" /\ raised_at = "")
    /\ pc = "returned" => analysis = ComposedAnalysis

C22_Witness ==
    /\ pc = "returned"
    /\ writes = 1
    /\ row = NoRow
    /\ analysis = ComposedAnalysis
    /\ analysis # NoAnalysis

\* C23: within one analyze_anomaly call the capability is invoked at most once
\* for the root cause and at most once for the recommendations, and a decision
\* whose invocation failed is made by the deterministic arm.
C23_NoRetry ==
    /\ rc_calls <= 1
    /\ rec_calls <= 1
    /\ (ResolverDone /\ RootCauseArmFailed /\ raised_at # "root_cause") =>
          rc_arm = "rule"
    /\ (GeneratorDone /\ RecommendationArmFailed /\ raised_at # "recommendations") =>
          rec_arm = "rule"
    /\ ResolverDone => (rc_calls = 0 <=> rc_answer = "not_called")
    /\ GeneratorDone => (rec_calls = 0 <=> rec_answer = "not_called")

C23_Witness ==
    /\ pc = "summary"
    /\ rc_answer = "raises" /\ rc_calls = 1 /\ rc_arm = "rule"
    /\ rec_answer = "non_json" /\ rec_calls = 1 /\ rec_arm = "rule"

\* C27: no step of analyze_anomaly changes ai_available, and each decision
\* selects its arm from ai_available alone: after a failure of the reasoning
\* arm in the root-cause resolution the recommendation generation of the same
\* analysis, and the root-cause resolution of a later analysis, still call the
\* capability whenever their prompt can be built.
C27_ArmNotPersisted ==
    [][/\ ai_available' = ai_available
       /\ (pc = "recommendations" /\ pc' # "recommendations") =>
             (rec_calls' = 1 <=> (ai_available /\ ~recommendation_prompt_raises(root)))
       /\ (pc = "root_cause" /\ pc' # "root_cause") =>
             (rc_calls' = 1 <=> (ai_available /\ ~root_cause_prompt_raises(ctx)))]_vars

C27_Witness ==
    /\ pc = "summary"
    /\ ai_available
    /\ RootCauseArmFailed /\ rc_arm = "rule"
    /\ rec_calls = 1 /\ rec_arm = "ai"

\* likely_cause as _analyze_migration_impact computed it in _gather_context
CorrelatedLikelyCause ==
    ctx.has_migration_analysis /\ ctx.migration_analysis.likely_cause

\* C28: in every analysis the migration block of the 'why it happened'
\* narrative is present, and the migration_detected flag of the stored row is
\* set, exactly when the correlation of the context gathering computed
\* likely_cause = True, whichever arm produced the root cause.
C28_AsStated ==
    pc \in {"save", "returned"} =>
        /\ analysis.summary.why_it_happened.migration_block = CorrelatedLikelyCause
        /\ row # NoRow => row.migration_detected = CorrelatedLikelyCause

\* the generator returned an empty list and the composer has run
ComposedWithoutRecommendations ==
    /\ GeneratorDone
    /\ raised_at \notin {"root_cause", "recommendations"}
    /\ pc \in {"save", "returned", "raised"}
    /\ recommendations = <<>>

\* C24: when the generator yields no recommendation, analyze_anomaly does not
\* raise: it composes and returns an analysis whose improvements field is the
\* "still analyzing" placeholder.
C24_AsStated ==
    ComposedWithoutRecommendations =>
        /\ pc # "raised"
        /\ analysis.recommendations = <<>>
        /\ analysis.summary.what_improvements_can_be_made = StillAnalyzing

----------------------------------------------------------------------------
\* Properties of the baseline engine (SpecBaseline)

AnalyzeMetricDone == b_pc = "done" /\ b_op = "analyze_metric"
CalculatorDone ==
    b_pc = "done" /\ b_op \in {"calculate_baseline", "calculate_baseline_with_ai"}

\* the reasoning path produced a recommendation with a self-reported
\* confidence: the optimizer uses the capability, the call returned, the text
\* is a JSON object with 'recommended_method' and a numeric 'confidence'
ReasoningPathAnswered ==
    /\ b_use_ai /\ b_ai_available
    /\ b_response.call = "returns"
    /\ parses(b_response)
    /\ b_response.payload.top = "object"
    /\ b_response.payload.recommended_method.t # "missing"
    /\ b_response.payload.confidence.t = "num"

\* the recommendation carries a 'reasoning' that the accepted branch can log
\* (a text, or another value that [:100] is defined on)
ReasoningReadable == b_response.payload.reasoning.t \in {"str", "list"}

ReasoningPathRecommendation ==
    MethodRecommendation(b_response.payload.recommended_method,
                         b_response.payload.confidence, b_response.payload.reasoning,
                         b_response.payload.lookback_days,
                         analyze_data_characteristics(b_data))

\* the rule table of the specification, on the characteristics of the series
TableMethod(ch) ==
    IF ch.volatility = "high" THEN <<"rolling_average", 14, 80>>
    ELSE IF ch.trend # "stable" THEN <<"rolling_average", 21, 85>>
    ELSE IF ch.sample_count > 10000 THEN <<"seasonal_decomposition", 90, 70>>
    ELSE <<"simple_stats", 30, 75>>

FollowsTable(rec, ch) ==
    /\ rec.recommended_method = JStr(<<TableMethod(ch)[1]>>)
    /\ rec.lookback_days = JNum(TableMethod(ch)[2])
    /\ rec.confidence = JNum(TableMethod(ch)[3])
    /\ rec.data_characteristics = ch

\* C15 as stated: when the reasoning path answers analyze_metric with a
\* recommendation, that recommendation is returned if and only if its
\* confidence is at least the configured threshold, and otherwise the
\* rule-based recommendation is returned.
C15_AsStated ==
    (AnalyzeMetricDone /\ ReasoningPathAnswered) =>
        LET confidence == b_response.payload.confidence.n
            ch == analyze_data_characteristics(b_data)
        IN  /\ (b_recommendation = ReasoningPathRecommendation)
                  <=> (confidence >= b_threshold)
            /\ confidence < b_threshold => FollowsTable(b_recommendation, ch)

\* C15: when the reasoning path answers analyze_metric with a recommendation,
\* that recommendation is returned if and only if its confidence is at least
\* the configured threshold and it carries a readable 'reasoning'; otherwise
\* (a lower confidence, or a 'reasoning' that is missing or null) the
\* rule-based recommendation is returned.  With the default threshold 0.75 a
\* confidence of 0.74 gives the rule-based recommendation and 0.76, with its
\* reasoning, the reasoning-path one.
C15_ConfidenceGate ==
    (AnalyzeMetricDone /\ ReasoningPathAnswered) =>
        LET confidence == b_response.payload.confidence.n
            ch == analyze_data_characteristics(b_data)
        IN  /\ (b_recommendation = ReasoningPathRecommendation)
                  <=> (confidence >= b_threshold /\ ReasoningReadable)
            /\ (confidence < b_threshold \/ ~ReasoningReadable) =>
                  FollowsTable(b_recommendation, ch)
            /\ (b_threshold = 75 /\ confidence = 74) => FollowsTable(b_recommendation, ch)
            /\ (b_threshold = 75 /\ confidence = 76 /\ ReasoningReadable) =>
                  b_recommendation = ReasoningPathRecommendation

C15_Witness ==
    /\ AnalyzeMetricDone /\ ReasoningPathAnswered
    /\ b_threshold = DefaultThreshold
    /\ b_response.payload.confidence.n = DefaultThreshold
    /\ b_recommendation = ReasoningPathRecommendation
    /\ b_recommendation.reasoning = JStr(<<"reasoning of the capability">>)

\* C16: without the reasoning path analyze_metric returns, for every series,
\* the recommendation of the rule table: volatility high gives rolling_average
\* / 14 / 0.80; else a trend that is not stable gives rolling_average / 21 /
\* 0.85; else more than 10000 samples give seasonal_decomposition / 90 / 0.70;
\* else simple_stats / 30 / 0.75.
C16_RuleTable ==
    (AnalyzeMetricDone /\ ~(b_use_ai /\ b_ai_available)) =>
        FollowsTable(b_recommendation, analyze_data_characteristics(b_data))

C16_Witness ==
    /\ AnalyzeMetricDone /\ ~(b_use_ai /\ b_ai_available)
    /\ volatility_of(b_data) = "high"
    /\ trend_of(b_data) = "increasing"
    /\ b_data.sample_count > 10000
    /\ b_recommendation.recommended_method = JStr(<<"rolling_average">>)
    /\ b_recommendation.lookback_days = JNum(14)

\* the method calculate_baseline routes on
RequestedMethod == IF b_request = "" THEN b_method ELSE b_request

\* C17: a baseline returned by calculate_baseline for rolling_average or
\* seasonal_decomposition names the requested method in its notes.
C17_AsStated ==
    (/\ b_pc = "done" /\ b_op = "calculate_baseline"
     /\ RequestedMethod \in {"rolling_average", "seasonal_decomposition"}
     /\ ~b_outcome.raised)
        => b_outcome.baseline.notes = RequestedMethod

\* the store holds no sample of the column: the statistics query counts none
\* or yields no row
StoreWithoutData ==
    \/ b_store.stats = "no_row"
    \/ b_store.stats = "ok" /\ b_store.row.sample_count = 0

\* C18 as stated: every calculator operation either returns a baseline with
\* sample_count > 0 or fails with the no-data error.
C18_AsStated ==
    CalculatorDone =>
        \/ ~b_outcome.raised /\ b_outcome.baseline.sample_count > 0
        \/ b_outcome.raised /\ b_outcome.error = "no_data"

\* C18: every calculator operation ends in one of three ways, decided by the
\* store alone.  When the statistics query itself fails, the store's error
\* reaches the caller; when the store holds no sample of the column, the
\* no-data error reaches the caller; otherwise the operation returns the
\* statistics of the store's own samples, with sample_count > 0.  No
\* zero-sample baseline and no substitute baseline is ever returned.
C18_NoZeroSampleBaseline ==
    CalculatorDone =>
        /\ b_store.stats = "error" =>
              (b_outcome.raised /\ b_outcome.error = "store_error")
        /\ StoreWithoutData => (b_outcome.raised /\ b_outcome.error = "no_data")
        /\ (b_store.stats = "ok" /\ b_store.row.sample_count > 0) =>
              /\ ~b_outcome.raised
              /\ b_outcome.baseline.sample_count = b_store.row.sample_count
              /\ b_outcome.baseline.mean = float_or_zero(b_store.row.mean)

C18_Witness ==
    /\ b_pc = "done" /\ b_op = "calculate_baseline_with_ai"
    /\ b_store.stats = "ok" /\ b_store.sample = "ok"
    /\ b_store.row.sample_count = 0
    /\ b_outcome.raised /\ b_outcome.error = "no_data"

\* C19: every baseline the calculator returns from the simple_stats
\* calculation of a non-empty series satisfies min <= p50 <= p95 <= p99 <= max
\* and std_dev >= 0, also for a single sample, whose standard deviation the
\* store reports as NULL.
C19_OrderedStatistics ==
    (CalculatorDone /\ ~b_outcome.raised) =>
        /\ b_outcome.baseline.min_value <= b_outcome.baseline.p50
        /\ b_outcome.baseline.p50 <= b_outcome.baseline.p95
        /\ b_outcome.baseline.p95 <= b_outcome.baseline.p99
        /\ b_outcome.baseline.p99 <= b_outcome.baseline.max_value
        /\ b_outcome.baseline.std_dev >= 0

C19_Witness ==
    /\ CalculatorDone /\ ~b_outcome.raised
    /\ b_store.row.sample_count = 1
    /\ b_store.row.std_dev.k = "null"
    /\ b_outcome.baseline.std_dev = 0
    /\ b_outcome.baseline.min_value = b_outcome.baseline.max_value

----------------------------------------------------------------------------
\* Properties of _analyze_migration_impact (SpecCorrelate)

Returned == c_pc = "done"

\* seconds between a migration of the call and the anomaly
Before(m) == c_detected_at - m.timestamp

RelatedEntries == {c_result.related_migrations[i] : i \in DOMAIN c_result.related_migrations}
RelatedEvents == {e.migration : e \in RelatedEntries}
Events == {c_migrations[i] : i \in DOMAIN c_migrations}

\* the sources of notes as the specification lists them, read off the fields
AddsUsers(m) == m.user_count_change.k = "int" /\ m.user_count_change.n > 0
NamesFeature(m) ==
    m.type.k = "str" /\ m.type.chars \in {New_Feature, FUNCTIONALITY_CHANGE}
RaisesCpu(m) ==
    /\ m.resource_requirements.k = "map"
    /\ m.resource_requirements.cpu.k = "int"
    /\ m.resource_requirements.cpu.n # 0
RaisesMemory(m) ==
    /\ m.resource_requirements.k = "map"
    /\ m.resource_requirements.mem.k = "int"
    /\ m.resource_requirements.mem.n # 0
HasNote(m) == AddsUsers(m) \/ NamesFeature(m) \/ RaisesCpu(m) \/ RaisesMemory(m)

InWindow(m) == 0 <= Before(m) /\ Before(m) <= 24 * 3600

\* C6 as stated: an event exactly 24.0 hours before the anomaly is excluded, an
\* event exactly 0 hours before is included, an event after the anomaly is
\* excluded.
C6_AsStated ==
    Returned =>
        \A m \in Events :
            /\ Before(m) = 24 * 3600 => m \notin RelatedEvents
            /\ (Before(m) = 0 /\ HasNote(m)) => m \in RelatedEvents
            /\ Before(m) < 0 => m \notin RelatedEvents

\* C6 amended: an event exactly 24.0 hours before the anomaly is retained (only
\* an event more than 24 hours before is excluded), an event exactly 0 hours
\* before is included, an event after the anomaly is excluded.
C6_WindowBoundaries ==
    Returned =>
        \A m \in Events :
            /\ (Before(m) = 24 * 3600 /\ HasNote(m)) => m \in RelatedEvents
            /\ Before(m) > 24 * 3600 => m \notin RelatedEvents
            /\ (Before(m) = 0 /\ HasNote(m)) => m \in RelatedEvents
            /\ Before(m) < 0 => m \notin RelatedEvents

C6_Witness ==
    /\ Returned
    /\ \E e \in RelatedEntries : e.time_before_anomaly_hours = 24 * 3600
    /\ \E m \in Events : Before(m) < 0 /\ m \notin RelatedEvents

\* number of impact factors the in-window events of a list account for
RECURSIVE WindowFactorCount(_)
WindowFactorCount(migs) ==
    IF migs = <<>> THEN 0
    ELSE (IF InWindow(Head(migs))
          THEN (IF AddsUsers(Head(migs)) THEN 1 ELSE 0)
               + (IF NamesFeature(Head(migs)) THEN 1 ELSE 0)
               + (IF reqs_truthy(Head(migs).resource_requirements) THEN 1 ELSE 0)
          ELSE 0)
         + WindowFactorCount(Tail(migs))

\* C7: an event is retained for causal consideration iff it lies 0 to 24 hours
\* (both inclusive) before the anomaly: every related migration lies in that
\* window, every event of the window that has a note is related, and only the
\* events of the window add impact factors.
C7_RetainedIffInWindow ==
    Returned /\ c_migrations # <<>> =>
        /\ \A e \in RelatedEntries :
              /\ InWindow(e.migration)
              /\ e.time_before_anomaly_hours = Before(e.migration)
        /\ \A m \in Events : (InWindow(m) /\ HasNote(m)) => m \in RelatedEvents
        /\ \A m \in Events : ~InWindow(m) => m \notin RelatedEvents
        /\ Len(c_result.impact_factors) = WindowFactorCount(c_migrations)

C7_Witness ==
    /\ Returned
    /\ Len(c_migrations) = 2
    /\ Before(c_migrations[1]) < 0
    /\ Before(c_migrations[2]) = 0
    /\ Len(c_result.related_migrations) = 1
    /\ Len(c_result.impact_factors) = 1

\* C8: likelyCause is true iff relatedMigrations is non-empty and some related
\* event occurred strictly less than 6 hours before the anomaly (6.0 h alone
\* does not, 5.99 h does).
C8_LikelyCauseIff ==
    Returned =>
        (c_result.likely_cause <=>
            /\ c_result.related_migrations # <<>>
            /\ \E e \in RelatedEntries : Before(e.migration) < 6 * 3600)

C8_Witness ==
    /\ Returned
    /\ c_result.likely_cause
    /\ Len(c_result.related_migrations) = 2
    /\ Before(c_result.related_migrations[1].migration) = 6 * 3600
    /\ Before(c_result.related_migrations[2].migration) = 6 * 3600 - 36

\* C9: an in-window event is in relatedMigrations iff it produced at least one
\* note; notes arise exactly from a user-count increase > 0, a type naming
\* functionality or a feature in any letter case, a cpu increase and a memory
\* increase (one note each).
NoteKinds(e) == {e.potential_impact[i].kind : i \in DOMAIN e.potential_impact}
C9_RelatedIffNote ==
    Returned =>
        /\ \A m \in Events : InWindow(m) => (m \in RelatedEvents <=> HasNote(m))
        /\ \A e \in RelatedEntries :
              /\ e.potential_impact # <<>>
              /\ "users" \in NoteKinds(e) <=> AddsUsers(e.migration)
              /\ "functionality" \in NoteKinds(e) <=> NamesFeature(e.migration)
              /\ "cpu" \in NoteKinds(e) <=> RaisesCpu(e.migration)
              /\ "memory" \in NoteKinds(e) <=> RaisesMemory(e.migration)
              /\ Len(e.potential_impact) = Cardinality(NoteKinds(e))

C9_Witness ==
    /\ Returned
    /\ Len(c_migrations) = 2
    /\ c_migrations[1].migration_id = "functionality"
    /\ c_migrations[2].migration_id = "disk"
    /\ Len(c_result.related_migrations) = 1
    /\ Len(c_result.related_migrations[1].potential_impact) = 1

\* C10: a second call with the same arguments returns the same dictionary as
\* the first, and no call changes the anomaly's detection time, the list of
\* change events or its events.
C10_Idempotent ==
    /\ (Returned /\ c_calls >= 2) => c_result = c_first
    /\ c_detected_at = c_args0.detected_at
    /\ c_migrations = c_args0.migrations

C10_Witness ==
    /\ Returned
    /\ c_calls = 2
    /\ Len(c_result.related_migrations) = 2
    /\ c_result.likely_cause

\* the impact factors the related events account for
FactorsOfRelated ==
    UNION {{step_factors(e.migration, e.time_before_anomaly_hours)[i] :
               i \in DOMAIN step_factors(e.migration, e.time_before_anomaly_hours)} :
           e \in RelatedEntries}

\* C29: in every result of _analyze_migration_impact each entry of
\* impact_factors comes from an event of related_migrations: impact_factors is
\* empty whenever related_migrations is empty, and the factors quoted in the
\* "likely contributed" summary belong to related events.
C29_AsStated ==
    Returned =>
        /\ c_result.related_migrations = <<>> => c_result.impact_factors = <<>>
        /\ \A i \in DOMAIN c_result.impact_factors :
              c_result.impact_factors[i] \in FactorsOfRelated
        /\ \A i \in DOMAIN c_result.impact_summary.factors :
              c_result.impact_summary.factors[i] \in FactorsOfRelated

----------------------------------------------------------------------------
\* Properties of the Baseline table (SpecBatch)

\* C26 as stated: after any sequence of calls the table holds exactly the
\* baselines passed to save_baseline
C26_AsStated == s_table = s_passed

\* C26: calculate_baseline inserts no row, whatever the method and the outcome:
\* after any sequence of calculate_baseline and save_baseline calls the table
\* holds exactly the baselines passed to a save_baseline call that succeeded, in
\* the order of the calls
C26_TableHoldsSavedOnly == s_table = s_saved

\* a baseline was calculated, saved, and another one calculated after it
C26_Witness ==
    /\ s_pc = "ready"
    /\ s_ops = MaxOps
    /\ Len(s_table) = 1
    /\ s_held # NoBaseline
    /\ s_held # s_table[1]

\* the baselines of the metrics from position i on that are enabled, calculated
\* and stored, given what the store answers and what each insert reported
RECURSIVE saved_baselines(_, _, _, _, _)
saved_baselines(metrics, stores, config_method, log, i) ==
    IF i > Len(metrics) THEN <<>>
    ELSE LET r == calculate_baseline(stores[metrics[i].name], config_method,
                                     metrics[i].name, JNull, "")
             rest == saved_baselines(metrics, stores, config_method, log, i + 1)
         IN  IF metric_enabled(metrics[i]) /\ ~r.raised /\ log[i].insert = "ok"
             THEN <<r.baseline>> \o rest
             ELSE rest

\* C30: when calculate_and_save_all_baselines returns, every configured metric
\* has been processed in order; a metric was calculated exactly if it is
\* enabled, and saved only if its calculation succeeded; the list returned is,
\* in configured order, the baselines of the enabled metrics whose calculation
\* and save both succeeded, and these are the rows the call added to the table
C30_BatchReturnsSaved ==
    s_pc = "batch_done" =>
        LET metrics == metrics_of(s_metrics)
        IN  /\ Len(s_log) = Len(metrics)
            /\ \A i \in 1..Len(metrics) :
                  /\ s_log[i].metric = metrics[i]
                  /\ s_log[i].calculated <=> metric_enabled(metrics[i])
                  /\ s_log[i].save_called <=>
                        /\ metric_enabled(metrics[i])
                        /\ ~calculate_baseline(s_stores[metrics[i].name], b_method,
                                               metrics[i].name, JNull, "").raised
            /\ s_baselines = saved_baselines(metrics, s_stores, b_method, s_log, 1)
            /\ Len(s_baselines) <= Len(s_table)
            /\ SubSeq(s_table, Len(s_table) - Len(s_baselines) + 1, Len(s_table))
                  = s_baselines

\* the call returned after a calculation failed, a save failed, and a later
\* metric was calculated and saved
C30_Witness ==
    /\ s_pc = "batch_done"
    /\ \E i, j, k \in 1..Len(s_log) :
          /\ i < k
          /\ j < k
          /\ s_log[i].calculated /\ ~s_log[i].save_called
          /\ s_log[j].save_called /\ s_log[j].insert # "ok"
          /\ s_log[k].insert = "ok"

----------------------------------------------------------------------------
\* Properties of concurrent calls (SpecConcurrent)

\* what a finished call handed to its caller
OutcomeOf(call) == [raised |-> call.pc = "raised", analysis |-> call.analysis]

\* C25: under every interleaving of two analyze_anomaly calls for different
\* anomalies on one agent, a call that has finished returned (or raised) what
\* the same call returns when it runs alone on the agent as constructed, given
\* the same answers of the store, the capability and the clock; and the agent
\* field the calls read is as __init__ left it
C25_ResultAsAlone ==
    /\ ai_available = t_constructed
    /\ \A t \in DOMAIN t_calls :
          t_calls[t].pc \in {"returned", "raised"} =>
              OutcomeOf(t_calls[t]) =
                  analyze_anomaly(t_constructed, migrations_table,
                      t_calls[t].anomaly, t_calls[t].query_fails,
                      t_calls[t].rc_response, t_calls[t].rec_response,
                      t_calls[t].elapsed)

\* one call has returned an analysis of the reasoning arm while the other,
\* whose reasoning arm failed, is still between its steps
C25_Witness ==
    /\ t_calls # <<>>
    /\ t_calls[1].pc = "returned"
    /\ t_calls[1].rc_response.answer = "good"
    /\ t_calls[2].pc = "summary"
    /\ t_calls[2].rc_response.answer = "raises"
    /\ t_calls[1].anomaly.anomaly_type # t_calls[2].anomaly.anomaly_type

====
